---- MODULE Spec2Model ----
(***************************************************************************)
(* Model of the rule matcher, the configuration apply route and the        *)
(* product webhook handlers of meta-bulk-assign.                           *)
(*                                                                         *)
(* Text values.  A text is a sequence of tokens.  The tokens "[", "]",     *)
(* "," and "q" (the double quote) are the JSON punctuation; every other    *)
(* token abbreviates a fixed piece of text without punctuation, e.g. "g1"  *)
(* is gid://shopify/Product/1.  The empty sequence is the empty string,    *)
(* and also stands for null/undefined where the code only tests            *)
(* truthiness.  Plain TLA+ strings are used for values that are never      *)
(* parsed (vendor, category name, rule_value).                             *)
(***************************************************************************)
EXTENDS Integers, Sequences, FiniteSets, TLC

VARIABLES
    pc,         \* position of the operation under analysis
    product,    \* the catalog item handed to the matcher
    rules,      \* flat rule list (configuration_rules rows or preview rules)
    ruleTree,   \* result of buildRuleTree(rules)
    node,       \* the rule node handed to evaluateRuleNode
    result,     \* last result of the matcher operation
    hookResult, \* last result of the webhook's productMatchesRules
    configurations,       \* table configurations
    configuration_rules,  \* table configuration_rules
    catalog,    \* the shop's products, in the order the Admin API lists them
    metafields, \* product id -> <<namespace, key>> -> value stored in the shop
    op,         \* the request being served: "apply", "saved", "preview"
    cfg,        \* the configuration row the request loaded
    allProducts,      \* fetchAllProducts: nodes collected so far
    cursor,           \* fetchAllProducts: cursor (0 = null)
    hasNextPage,      \* fetchAllProducts: loop condition
    matchingProducts, \* result of findMatchingProducts / previewMatchingProducts
    metafieldConfigs, \* result of processMetafieldConfigs
    idx,        \* position of the for-of loop
    results,    \* the apply route's results object
    response,   \* what the request answered
    writeLog,   \* history: the productUpdate calls issued, in order
    shop,       \* webhook: the shop the event was delivered for
    hookConfigurations, \* webhook: the result of getAllConfigurations
    appliedCount,       \* webhook: appliedCount
    hookLog,    \* history: the configurations the handler has dealt with
    hookExit,   \* how the handler ended, and why
    deliveries, \* webhook: how many times the event was delivered so far
    firstRun,   \* history: the item's fields and the log after the first delivery
    serial,     \* next values of the id sequences of the two tables
    req,        \* admin: the request being served
    reply,      \* admin: what the request answered
    snapshot,   \* history: the tables and external calls when the request began
    metaobjectCalls, \* history: number of metaobject create/update calls issued
    unchecked,  \* history: configurations last saved with the storefront box unchecked
    observed,   \* what a concurrently handled event saw of a configuration
    dbInitialized,  \* index.js: dbInitialized
    dbInitPromise,  \* index.js: dbInitPromise (0 = null, else an index of promises)
    promises,       \* the promises initializeDatabase created: pending, fulfilled, rejected
    arrivals        \* the requests that reached the middleware, and what became of them

matcherVars == <<product, node, result, hookResult>>
dbVars == <<configurations, configuration_rules>>
shopVars == <<catalog, metafields>>
fetchVars == <<allProducts, cursor, hasNextPage>>
requestVars == <<op, cfg, matchingProducts, metafieldConfigs, idx, results, response, writeLog>>

hookVars == <<shop, hookConfigurations, appliedCount, hookLog, hookExit>>

redeliveryVars == <<deliveries, firstRun>>

initVars == <<dbInitialized, dbInitPromise, promises, arrivals>>

adminVars == <<serial, req, reply, snapshot, metaobjectCalls, unchecked, observed>>

vars == <<pc, rules, ruleTree, matcherVars, dbVars, shopVars, fetchVars, requestVars,
          hookVars, redeliveryVars, initVars, adminVars>>

----------------------------------------------------------------------------
(* Bounds *)

MaxRefLen == 5      \* longest enumerated rule_id text, in tokens
MaxRules  == 3      \* longest enumerated rule list
MaxCatalog == 4     \* most products in the shop
PageSize == 2       \* products per page (products(first: 250) scaled down)

----------------------------------------------------------------------------
(* Catalog items *)

NoCategory == [present |-> FALSE, id |-> <<>>, name |-> ""]
Cat1 == [present |-> TRUE, id |-> <<"c1">>, name |-> "Cat1"]
Cat2 == [present |-> TRUE, id |-> <<"c2">>, name |-> "Cat2"]
Col1 == [id |-> <<"k1">>, title |-> "Summer"]

\* `gid://shopify/Product/${payload.id}`
GidToken == <<"g1", "g2", "g3", "g4", "g5", "g6", "g7">>
ProductGid(id) == <<GidToken[id]>>

\* An item of the shop: the attributes both the Admin GraphQL node and the
\* webhook payload are views of.
Items ==
    [id : {1, 2}, vendor : {"X", "Y"}, category : {NoCategory, Cat1, Cat2},
     product_type : {"Cat1", "T"}, collections : {<<>>, <<Col1>>}, title : {"t"}]

\* The node fetchAllProducts receives for an item.
GraphqlNode(item) ==
    [id |-> ProductGid(item.id), title |-> item.title, vendor |-> item.vendor,
     category |-> item.category, collections |-> item.collections]

\* The payload a products/create or products/update webhook carries.
WebhookPayload(item) ==
    [id |-> item.id, vendor |-> item.vendor, product_type |-> item.product_type,
     category |-> item.category]

----------------------------------------------------------------------------
(* JSON.parse on token texts: strings and arrays *)

JsonFail == [ok |-> FALSE, kind |-> "none", str |-> <<>>, elems |-> <<>>, next |-> 0]

RECURSIVE FindQuote(_, _)
FindQuote(s, i) ==
    IF i > Len(s) THEN 0
    ELSE IF s[i] = "q" THEN i
    ELSE FindQuote(s, i + 1)

RECURSIVE ParseValue(_, _)
RECURSIVE ParseElems(_, _, _)
ParseValue(s, i) ==
    IF i > Len(s) THEN JsonFail
    ELSE IF s[i] = "q" THEN
        LET j == FindQuote(s, i + 1) IN
        IF j = 0 THEN JsonFail
        ELSE [ok |-> TRUE, kind |-> "string", str |-> SubSeq(s, i + 1, j - 1),
              elems |-> <<>>, next |-> j + 1]
    ELSE IF s[i] = "[" THEN
        IF i + 1 <= Len(s) /\ s[i + 1] = "]"
        THEN [ok |-> TRUE, kind |-> "array", str |-> <<>>, elems |-> <<>>, next |-> i + 2]
        ELSE ParseElems(s, i + 1, <<>>)
    ELSE JsonFail

ParseElems(s, i, acc) ==
    LET v == ParseValue(s, i) IN
    IF ~v.ok THEN JsonFail
    ELSE IF v.next > Len(s) THEN JsonFail
    ELSE IF s[v.next] = "," THEN ParseElems(s, v.next + 1, Append(acc, v))
    ELSE IF s[v.next] = "]"
    THEN [ok |-> TRUE, kind |-> "array", str |-> <<>>, elems |-> Append(acc, v),
          next |-> v.next + 1]
    ELSE JsonFail

\* JSON.parse(text): ok = FALSE models the SyntaxError it throws.
JSONparse(s) ==
    LET v == ParseValue(s, 1) IN
    IF v.ok /\ v.next = Len(s) + 1 THEN v ELSE JsonFail

\* Array.prototype.includes(text) on a parsed array (strict equality).
Includes(arr, text) ==
    \E k \in 1..Len(arr.elems) : arr.elems[k].kind = "string" /\ arr.elems[k].str = text

\* JSON.stringify of a list of texts.
RECURSIVE JoinQuoted(_)
JoinQuoted(ids) ==
    IF Len(ids) = 0 THEN <<>>
    ELSE IF Len(ids) = 1 THEN <<"q">> \o ids[1] \o <<"q">>
    ELSE <<"q">> \o ids[1] \o <<"q", ",">> \o JoinQuoted(Tail(ids))

JSONstringify(ids) == <<"[">> \o JoinQuoted(ids) \o <<"]">>

----------------------------------------------------------------------------
(* product-matcher.js *)

\* JavaScript truthiness of a plain string / of a token text.
Truthy(s) == s # ""
TruthyText(t) == t # <<>>

NoParent == 0

\* Variant: the JSON list form is not recognised, only the raw comparison.
matchesProductRule_RawOnly(prod, ruleId) ==
    IF ~TruthyText(ruleId) THEN FALSE ELSE prod.id = ruleId

matchesProductRule(prod, ruleId) ==
    IF ~TruthyText(ruleId) THEN FALSE
    ELSE LET parsed == JSONparse(ruleId) IN
         IF parsed.ok /\ parsed.kind = "array"
         THEN Includes(parsed, prod.id)
         ELSE prod.id = ruleId

matchesRule(prod, rule) ==
    LET ruleType == rule.rule_type
        ruleValue == rule.rule_value
        ruleId == rule.rule_id
    IN  IF ~Truthy(ruleValue) /\ ~TruthyText(ruleId) THEN FALSE
        ELSE CASE ruleType = "vendor" -> prod.vendor = ruleValue
               [] ruleType = "category" ->
                    IF TruthyText(ruleId)
                    THEN prod.category.present /\ prod.category.id = ruleId
                    ELSE prod.category.present /\ prod.category.name = ruleValue
               [] ruleType = "collection" ->
                    IF TruthyText(ruleId)
                    THEN \E k \in 1..Len(prod.collections) :
                            prod.collections[k].id = ruleId
                    ELSE \E k \in 1..Len(prod.collections) :
                            prod.collections[k].title = ruleValue
               [] ruleType = "product" -> matchesProductRule(prod, ruleId)
               [] OTHER -> FALSE

\* Indexes, in list order, of the rules pushed onto ruleMap[id].children.
ChildIndexes(rs, id) ==
    SelectSeq([j \in 1..Len(rs) |-> j], LAMBDA j : rs[j].parent_id # NoParent /\ rs[j].parent_id = id)

RootIndexes(rs) ==
    SelectSeq([j \in 1..Len(rs) |-> j], LAMBDA j : rs[j].parent_id = NoParent)

RECURSIVE BuildNode(_, _)
BuildNode(rs, i) ==
    LET ch == ChildIndexes(rs, rs[i].id) IN
    [rule |-> rs[i], children |-> [k \in 1..Len(ch) |-> BuildNode(rs, ch[k])]]

\* Variant: a rule whose parent is not in the list is kept as a root.
buildRuleTree_DanglingAsRoots(rs) ==
    LET roots == SelectSeq([j \in 1..Len(rs) |-> j],
                           LAMBDA j : \/ rs[j].parent_id = NoParent
                                      \/ \A i \in 1..Len(rs) : rs[i].id # rs[j].parent_id)
    IN [k \in 1..Len(roots) |-> BuildNode(rs, roots[k])]

buildRuleTree(rs) ==
    IF Len(rs) = 0 THEN <<>>
    ELSE LET roots == RootIndexes(rs) IN [k \in 1..Len(roots) |-> BuildNode(rs, roots[k])]

\* Variant: children are always combined with OR.
RECURSIVE evaluateRuleNode_AlwaysOr(_, _)
evaluateRuleNode_AlwaysOr(prod, n) ==
    IF ~matchesRule(prod, n.rule) THEN FALSE
    ELSE IF Len(n.children) = 0 THEN TRUE
    ELSE \E k \in 1..Len(n.children) : evaluateRuleNode_AlwaysOr(prod, n.children[k])

RECURSIVE evaluateRuleNode(_, _)
evaluateRuleNode(prod, n) ==
    IF ~matchesRule(prod, n.rule) THEN FALSE
    ELSE IF Len(n.children) = 0 THEN TRUE
    ELSE IF n.children[1].rule.operator = "AND"
    THEN \A k \in 1..Len(n.children) : evaluateRuleNode(prod, n.children[k])
    ELSE \E k \in 1..Len(n.children) : evaluateRuleNode(prod, n.children[k])

\* Variant: roots are combined by the operator stored on the first root.
evaluateRuleTree_StoredOperator(prod, tree) ==
    IF Len(tree) = 0 THEN TRUE
    ELSE IF tree[1].rule.operator = "AND"
    THEN \A k \in 1..Len(tree) : evaluateRuleNode(prod, tree[k])
    ELSE \E k \in 1..Len(tree) : evaluateRuleNode(prod, tree[k])

evaluateRuleTree(prod, tree) ==
    IF Len(tree) = 0 THEN TRUE
    ELSE \E k \in 1..Len(tree) : evaluateRuleNode(prod, tree[k])

----------------------------------------------------------------------------
(* webhooks.js: the matcher of the product webhook handlers *)

hookLeafMatches(payload, rule) ==
    CASE rule.rule_type = "vendor" -> payload.vendor = rule.rule_value
      [] rule.rule_type = "category" ->
            \/ payload.product_type = rule.rule_value
            \/ (payload.category.present /\ payload.category.name = rule.rule_value)
      [] rule.rule_type = "collection" -> FALSE
      [] rule.rule_type = "product" -> ProductGid(payload.id) = rule.rule_id
      [] OTHER -> FALSE

RECURSIVE hookMatchesRule(_, _)
hookMatchesRule(payload, n) ==
    IF ~hookLeafMatches(payload, n.rule) THEN FALSE
    ELSE IF Len(n.children) = 0 THEN TRUE
    ELSE IF n.children[1].rule.operator = "AND"
    THEN \A k \in 1..Len(n.children) : hookMatchesRule(payload, n.children[k])
    ELSE \E k \in 1..Len(n.children) : hookMatchesRule(payload, n.children[k])

productMatchesRules(payload, rs) ==
    IF Len(rs) = 0 THEN TRUE
    ELSE LET roots == RootIndexes(rs)
             rootNodes == [k \in 1..Len(roots) |-> BuildNode(rs, roots[k])]
         IN \E k \in 1..Len(rootNodes) : hookMatchesRule(payload, rootNodes[k])

----------------------------------------------------------------------------
(* database.js: the configurations and configuration_rules tables.  A table  *)
(* is the sequence of its rows in insertion order.                           *)

\* Variant: ORDER BY priority ASC.
ConfigBefore_Ascending(a, b) ==
    \/ a.priority < b.priority
    \/ (a.priority = b.priority /\ a.created_at > b.created_at)

\* ORDER BY priority DESC, created_at DESC
ConfigBefore(a, b) ==
    \/ a.priority > b.priority
    \/ (a.priority = b.priority /\ a.created_at > b.created_at)

RECURSIVE OrderConfigs(_)
OrderConfigs(S) ==
    IF S = {} THEN <<>>
    ELSE LET first == CHOOSE r \in S : \A o \in S \ {r} : ConfigBefore(r, o)
         IN <<first>> \o OrderConfigs(S \ {first})

Rows(table) == {table[i] : i \in 1..Len(table)}

getAllConfigurations(table, forShop) ==
    OrderConfigs({r \in Rows(table) : r.shop = forShop})

\* The row, or NoConfig for undefined.
NoConfig == [id |-> 0, shop |-> "", type |-> "", metafield_configs |-> <<>>,
             priority |-> 0, show_on_storefront |-> FALSE,
             storefront_position |-> "after_price", created_at |-> 0]

getConfigurationById(table, id) ==
    IF \E r \in Rows(table) : r.id = id
    THEN CHOOSE r \in Rows(table) : r.id = id
    ELSE NoConfig

\* ORDER BY level, position (rows equal in both keep their insertion order)
RuleBefore(a, b) ==
    \/ a.level < b.level
    \/ (a.level = b.level /\ a.position < b.position)
    \/ (a.level = b.level /\ a.position = b.position /\ a.id < b.id)

RECURSIVE OrderRules(_)
OrderRules(S) ==
    IF S = {} THEN <<>>
    ELSE LET first == CHOOSE r \in S : \A o \in S \ {r} : RuleBefore(r, o)
         IN <<first>> \o OrderRules(S \ {first})

getConfigurationRules(table, configId) ==
    OrderRules({r \in Rows(table) : r.configuration_id = configId})

RuleRow(id, configId, parent, r) ==
    [id |-> id, configuration_id |-> configId, parent_id |-> parent,
     rule_type |-> r.rule_type, rule_value |-> r.rule_value, rule_id |-> r.rule_id,
     operator |-> r.operator, level |-> r.level, position |-> r.position]

\* The id a SERIAL column gives the next inserted row of a table no row was
\* ever deleted from.
NextId(table) ==
    IF Len(table) = 0 THEN 1
    ELSE 1 + (CHOOSE m \in {table[i].id : i \in 1..Len(table)} :
                 \A i \in 1..Len(table) : table[i].id <= m)

\* INSERT INTO configuration_rules ... RETURNING *; `id` is the SERIAL value
createConfigurationRule(table, id, configId, parent, r) ==
    Append(table, RuleRow(id, configId, parent, r))

\* [...rules].sort((a, b) => levelA - levelB), a stable sort
RECURSIVE SortByLevel(_)
SortByLevel(rs) ==
    IF Len(rs) = 0 THEN <<>>
    ELSE LET i == CHOOSE k \in 1..Len(rs) :
                    /\ \A j \in 1..Len(rs) : rs[k].level <= rs[j].level
                    /\ \A j \in 1..(k - 1) : rs[j].level > rs[k].level
         IN <<rs[i]>> \o SortByLevel(SubSeq(rs, 1, i - 1) \o SubSeq(rs, i + 1, Len(rs)))

\* idMap is a function from the request's rule ids to row ids; an id outside
\* its domain is a missing key.
RECURSIVE CreateSorted(_, _, _, _, _)
CreateSorted(table, configId, sorted, idMap, nextval) ==
    IF Len(sorted) = 0 THEN table
    ELSE LET rule == sorted[1]
             mappedParentId ==
                 IF rule.parent_id # NoParent /\ rule.parent_id \in DOMAIN idMap
                 THEN idMap[rule.parent_id] ELSE NoParent
             created == nextval
         IN CreateSorted(createConfigurationRule(table, created, configId,
                                                 mappedParentId, rule),
                         configId, Tail(sorted),
                         IF rule.id # 0
                         THEN [k \in DOMAIN idMap \cup {rule.id} |->
                                  IF k = rule.id THEN created ELSE idMap[k]]
                         ELSE idMap,
                         nextval + 1)

\* `nextval` is the next value of the table's id sequence
bulkCreateRules(table, configId, rs, nextval) ==
    CreateSorted(table, configId, SortByLevel(rs), [k \in {} |-> 0], nextval)

\* r.rule_type || r.ruleType ("" for a key the rule does not have)
RuleKind(r) ==
    IF r.rule_type # "" THEN r.rule_type
    ELSE IF "ruleType" \in DOMAIN r THEN r.ruleType
    ELSE ""

\* product-matcher.js: determineConfigurationType(rules)
RuleTypes(rs) == {RuleKind(rs[k]) : k \in 1..Len(rs)}

\* Variant: the kind is read from the root rules only.
determineConfigurationType_RootsOnly(rs) ==
    LET roots == SelectSeq(rs, LAMBDA r : r.level = 0) IN
    IF Len(roots) = 0 THEN "combined"
    ELSE IF Cardinality(RuleTypes(roots)) = 1 THEN CHOOSE t \in RuleTypes(roots) : TRUE
    ELSE "combined"

determineConfigurationType(rs) ==
    IF Len(rs) = 0 THEN "combined"
    ELSE IF Cardinality(RuleTypes(rs)) = 1 THEN CHOOSE t \in RuleTypes(rs) : TRUE
    ELSE "combined"

\* INSERT INTO configurations ... RETURNING *: the columns the statement does
\* not name take their defaults.
ConfigRow(id, forShop, type, priority, fields) ==
    [id |-> id, shop |-> forShop, type |-> type, metafield_configs |-> fields,
     priority |-> priority, show_on_storefront |-> FALSE,
     storefront_position |-> "after_price", created_at |-> id]

createConfiguration(table, id, forShop, type, fields, priority) ==
    Append(table, ConfigRow(id, forShop, type, priority, fields))

\* UPDATE configurations SET name, type, metafield_configs WHERE id: the
\* function has four parameters; what a caller passes after them is dropped.
updateConfiguration(table, id, type, fields) ==
    [i \in 1..Len(table) |->
        IF table[i].id = id
        THEN [table[i] EXCEPT !.type = type, !.metafield_configs = fields]
        ELSE table[i]]

updateConfigurationPriority(table, id, priority) ==
    [i \in 1..Len(table) |->
        IF table[i].id = id THEN [table[i] EXCEPT !.priority = priority] ELSE table[i]]

\* for (const { id, priority } of priorities)
RECURSIVE updateAllPriorities(_, _)
updateAllPriorities(table, priorities) ==
    IF Len(priorities) = 0 THEN table
    ELSE updateAllPriorities(
             updateConfigurationPriority(table, priorities[1].id, priorities[1].priority),
             Tail(priorities))

\* FOREIGN KEY (parent_id) REFERENCES configuration_rules (id) ON DELETE
\* CASCADE: the ids of the rows that go when the rows `ids` are deleted.
RECURSIVE CascadeClosure(_, _)
CascadeClosure(table, ids) ==
    LET more == {r.id : r \in {x \in Rows(table) : x.parent_id \in ids}} \ ids
    IN IF more = {} THEN ids ELSE CascadeClosure(table, ids \cup more)

DeleteRuleRows(table, ids) ==
    SelectSeq(table, LAMBDA r : r.id \notin CascadeClosure(table, ids))

\* Variant: the old rules stay until the new ones are inserted.
deleteConfigurationRules_Deferred(table, configId) == table

\* DELETE FROM configuration_rules WHERE configuration_id = ?
deleteConfigurationRules(table, configId) ==
    DeleteRuleRows(table, {r.id : r \in {x \in Rows(table) : x.configuration_id = configId}})

\* DELETE FROM configurations WHERE id = ?, with FOREIGN KEY
\* (configuration_id) REFERENCES configurations (id) ON DELETE CASCADE
deleteConfiguration(db, id) ==
    [configurations |-> SelectSeq(db.configurations, LAMBDA c : c.id # id),
     configuration_rules |-> deleteConfigurationRules(db.configuration_rules, id)]

\* duplicateConfiguration: the loop that copies the rules, parent_id as it is
RECURSIVE CopyRules(_, _, _, _)
CopyRules(table, configId, rs, nextval) ==
    IF Len(rs) = 0 THEN table
    ELSE CopyRules(createConfigurationRule(table, nextval, configId, rs[1].parent_id, rs[1]),
                   configId, Tail(rs), nextval + 1)

\* duplicateConfiguration(id, shop) for an id that exists; `seq` holds the
\* next values of the two id sequences
duplicateConfiguration(db, id, forShop, seq) ==
    LET original == getConfigurationById(db.configurations, id)
        rs == getConfigurationRules(db.configuration_rules, id)
    IN [configurations |->
            createConfiguration(db.configurations, seq.configurations, forShop,
                                original.type, original.metafield_configs,
                                original.priority),
        configuration_rules |->
            CopyRules(db.configuration_rules, seq.configurations, rs,
                      seq.configuration_rules)]

----------------------------------------------------------------------------
(* Metafield configurations (the elements of metafield_configs) *)

Str(text) == [kind |-> "string", text |-> text, nkeys |-> 0]
Obj(n) == [kind |-> "object", text |-> <<>>, nkeys |-> n]

Field(ns, key, type, value, moDefId, defId, moId) ==
    [namespace |-> ns, key |-> key, type |-> type, value |-> value,
     metaobjectDefinitionId |-> moDefId, definitionId |-> defId, metaobjectId |-> moId]

\* String(config.value)
StringOf(value) == IF value.kind = "object" THEN <<"[object Object]">> ELSE value.text

\* !config.value || config.value === ''
EmptyValue(value) == value.kind = "string" /\ value.text = <<>>

\* startsWith('gid://shopify/Metaobject/'): the token "M" is that prefix
IsMetaobjectGid(text) == Len(text) > 0 /\ text[1] = "M"

\* The id of the metaobject createOrUpdateMetaobject returns: the one it was
\* asked to update, or the id the store gives the one it creates, which no
\* earlier metaobject has (`calls` counts the calls answered so far).
MetaobjectIdFor(c, calls) ==
    IF c.metaobjectId # <<>> THEN c.metaobjectId ELSE <<"M", ToString(calls + 1)>>

\* Outcomes of the loop body of processMetafieldConfigs for one element:
\* threw = TRUE when it rethrows the failure of an external call.
ProcessOne(c, calls) ==
    IF c.type = "metaobject_reference" /\ c.value.kind = "object" /\ c.value.nkeys > 0
    THEN LET lookups ==
                 IF c.metaobjectDefinitionId # <<>>
                 THEN {[threw |-> FALSE, id |-> c.metaobjectDefinitionId]}
                 ELSE IF c.definitionId # <<>>
                 THEN {[threw |-> TRUE, id |-> <<>>], [threw |-> FALSE, id |-> <<>>],
                       [threw |-> FALSE, id |-> <<"D", "1">>]}
                 ELSE {[threw |-> FALSE, id |-> <<>>]}
         IN UNION {IF d.threw THEN {[threw |-> TRUE, config |-> c, calls |-> 0]}
                   ELSE IF d.id = <<>> THEN {[threw |-> FALSE, config |-> c, calls |-> 0]}
                   ELSE {[threw |-> TRUE, config |-> c, calls |-> 0],
                         [threw |-> FALSE,
                          config |-> [c EXCEPT !.metaobjectId = MetaobjectIdFor(c, calls),
                                               !.value = Str(MetaobjectIdFor(c, calls))],
                          calls |-> 1]}
                   : d \in lookups}
    ELSE {[threw |-> FALSE, config |-> c, calls |-> 0]}

\* Outcomes of the whole loop: what it returns unless it threw, and the
\* number of createOrUpdateMetaobject calls that were answered.
RECURSIVE ProcessAll(_, _)
ProcessAll(configs, calls) ==
    IF Len(configs) = 0 THEN {[threw |-> FALSE, processed |-> <<>>, calls |-> 0]}
    ELSE UNION {IF o.threw THEN {[threw |-> TRUE, processed |-> <<>>, calls |-> 0]}
                ELSE {[threw |-> r.threw,
                       processed |-> IF r.threw THEN <<>> ELSE <<o.config>> \o r.processed,
                       calls |-> o.calls + r.calls]
                      : r \in ProcessAll(Tail(configs), calls + o.calls)}
                : o \in ProcessOne(configs[1], calls)}

\* configuration-routes.js
processMetafieldConfigs(configs, calls) == ProcessAll(configs, calls)

\* webhooks.js (the same code, copied)
webhookProcessMetafieldConfigs(configs, calls) == ProcessAll(configs, calls)

\* The metafields array applyMetafieldsToProduct sends.
RECURSIVE BuildMetafields(_)
BuildMetafields(configs) ==
    IF Len(configs) = 0 THEN <<>>
    ELSE LET c == configs[1] IN
         IF EmptyValue(c.value) THEN BuildMetafields(Tail(configs))
         ELSE IF c.type = "metaobject_reference" /\ ~IsMetaobjectGid(StringOf(c.value))
         THEN BuildMetafields(Tail(configs))
         ELSE <<[namespace |-> c.namespace, key |-> c.key, value |-> StringOf(c.value),
                 type |-> c.type]>> \o BuildMetafields(Tail(configs))

\* The metafields of a product after a productUpdate that reports no error:
\* each entry sets the value stored under its namespace and key.
RECURSIVE ProductUpdate(_, _)
ProductUpdate(stored, input) ==
    IF Len(input) = 0 THEN stored
    ELSE ProductUpdate([stored EXCEPT ![<<input[1].namespace, input[1].key>>] = input[1].value],
                       Tail(input))

----------------------------------------------------------------------------
(* Inputs of the matcher specifications *)

Rule(id, parent, type, value, ref, oper, level, position) ==
    [id |-> id, parent_id |-> parent, rule_type |-> type, rule_value |-> value,
     rule_id |-> ref, operator |-> oper, level |-> level, position |-> position]

NoRule == Rule(0, NoParent, "none", "", <<>>, "OR", 0, 0)
NoNode == [rule |-> NoRule, children |-> <<>>]

Alphabet == {"[", "]", ",", "q", "g1"}

Texts(n) == UNION {[1..k -> Alphabet] : k \in 0..n}

\* rule_id texts for product rules: every short text, and the two-id list the
\* authoring tool writes for a multiselect of both products.
ProductRefs == Texts(MaxRefLen) \cup {JSONstringify(<<ProductGid(1), ProductGid(2)>>),
                                      JSONstringify(<<ProductGid(2)>>), ProductGid(2)}

LeafRules ==
    {Rule(1, NoParent, "product", v, r, "OR", 0, 0) : v \in {"", "v"}, r \in ProductRefs}
    \cup {Rule(1, NoParent, "vendor", v, r, "OR", 0, 0) :
            v \in {"", "X", "Y"}, r \in {<<>>, <<"c1">>}}
    \cup {Rule(1, NoParent, "category", v, r, "OR", 0, 0) :
            v \in {"", "Cat1", "Cat2"}, r \in {<<>>, <<"c1">>, <<"c2">>}}
    \cup {Rule(1, NoParent, "collection", v, r, "OR", 0, 0) :
            v \in {"", "Summer", "Winter"},
            r \in {<<>>, <<"k1">>, <<"k2">>, JSONstringify(<<(<<"k1">>)>>)}}

LeafItems(rule) ==
    IF rule.rule_type = "product"
    THEN {it \in Items : it.vendor = "X" /\ it.category = Cat1
                         /\ it.product_type = "T" /\ it.collections = <<>>}
    ELSE Items

\* Rule lists for the tree evaluation: rule i has id i and its parent is
\* absent or an earlier rule of the list.
TreeLeaves == {<<"vendor", "X">>, <<"vendor", "Y">>, <<"category", "Cat1">>}

RECURSIVE LevelOf(_, _)
LevelOf(rs, pid) == IF pid = NoParent THEN 0 ELSE 1 + LevelOf(rs, rs[pid].parent_id)

RECURSIVE RuleLists(_)
RuleLists(n) ==
    IF n = 0 THEN {<<>>}
    ELSE LET shorter == RuleLists(n - 1) IN
         shorter \cup
         {Append(rs, Rule(n, p, l[1], l[2], <<>>, o, LevelOf(rs, p),
                          Cardinality({j \in 1..Len(rs) : rs[j].parent_id = p}))) :
            rs \in {x \in shorter : Len(x) = n - 1}, p \in 0..(n - 1),
            l \in TreeLeaves, o \in {"AND", "OR"}}

TreeItems ==
    {it \in Items : it.id = 1 /\ it.product_type = "T" /\ it.collections = <<>>}

RECURSIVE NodesOf(_)
NodesOf(n) == {n} \cup UNION {NodesOf(n.children[k]) : k \in 1..Len(n.children)}

TreeNodes(tree) == UNION {NodesOf(tree[k]) : k \in 1..Len(tree)}

----------------------------------------------------------------------------
(* The matcher, one operation at a time *)

\* The parts of the state an operation does not use.
NoResults == [total |-> 0, successful |-> 0, failed |-> 0, errors |-> <<>>]
NoResponse == [status |-> 0, count |-> 0, products |-> <<>>]

IdleRequest ==
    /\ op = "none"
    /\ cfg = NoConfig
    /\ allProducts = <<>>
    /\ cursor = 0
    /\ hasNextPage = FALSE
    /\ matchingProducts = <<>>
    /\ metafieldConfigs = <<>>
    /\ idx = 0
    /\ results = NoResults
    /\ response = NoResponse
    /\ writeLog = <<>>

Running == [how |-> "running", cause |-> "none"]

NoFirstRun == [fields |-> <<>>, log |-> <<>>]

NoPromise == 0

IdleInit ==
    /\ dbInitialized = FALSE
    /\ dbInitPromise = NoPromise
    /\ promises = <<>>
    /\ arrivals = <<>>

IdleRedelivery ==
    /\ deliveries = 0
    /\ firstRun = NoFirstRun

NoRequest == [kind |-> "none", id |-> 0, shop |-> "", rules |-> <<>>,
              fields |-> [present |-> FALSE, list |-> <<>>],
              showOnStorefront |-> FALSE, priorities |-> <<>>]
NoReply == [status |-> 0, body |-> <<>>]
NoSnapshot == [configurations |-> <<>>, configuration_rules |-> <<>>,
               metaobjectCalls |-> 0, writes |-> 0, requests |-> 0]
NoObservation == [config |-> 0, rules |-> 0, matches |-> FALSE]

IdleAdmin ==
    /\ serial = [configurations |-> 1, configuration_rules |-> 1]
    /\ req = NoRequest
    /\ reply = NoReply
    /\ snapshot = NoSnapshot
    /\ metaobjectCalls = 0
    /\ unchecked = {}
    /\ observed = NoObservation

IdleHook ==
    /\ shop = ""
    /\ hookConfigurations = <<>>
    /\ appliedCount = 0
    /\ hookLog = <<>>
    /\ hookExit = Running

IdleShop ==
    /\ configurations = <<>>
    /\ configuration_rules = <<>>
    /\ catalog = <<>>
    /\ metafields = <<>>

InitLeaf ==
    /\ pc = "start"
    /\ \E r \in LeafRules : rules = <<r>> /\ product \in LeafItems(r)
    /\ ruleTree = <<>>
    /\ node = NoNode
    /\ result = FALSE
    /\ hookResult = FALSE
    /\ IdleShop
    /\ IdleRequest
    /\ IdleHook
    /\ IdleRedelivery
    /\ IdleInit
    /\ IdleAdmin

InitTree ==
    /\ pc = "start"
    /\ rules \in RuleLists(MaxRules)
    /\ product \in TreeItems
    /\ ruleTree = <<>>
    /\ node = NoNode
    /\ result = FALSE
    /\ hookResult = FALSE
    /\ IdleShop
    /\ IdleRequest
    /\ IdleHook
    /\ IdleRedelivery
    /\ IdleInit
    /\ IdleAdmin

\* matchesRule(product, rule) on one rule of the list
MatchRule ==
    /\ pc = "start"
    /\ \E i \in 1..Len(rules) :
          /\ node' = [rule |-> rules[i], children |-> <<>>]
          /\ result' = matchesRule(GraphqlNode(product), rules[i])
    /\ pc' = "leaf"
    /\ UNCHANGED <<product, rules, ruleTree, hookResult>>
    /\ UNCHANGED <<hookVars, redeliveryVars, initVars, adminVars>>
    /\ UNCHANGED <<dbVars, shopVars, fetchVars, requestVars>>
    /\ UNCHANGED <<hookVars, redeliveryVars, initVars, adminVars>>

\* buildRuleTree(rules)
BuildTree ==
    /\ pc = "start"
    /\ ruleTree' = buildRuleTree(rules)
    /\ pc' = "built"
    /\ UNCHANGED <<product, rules, node, result, hookResult>>
    /\ UNCHANGED <<hookVars, redeliveryVars, initVars, adminVars>>
    /\ UNCHANGED <<dbVars, shopVars, fetchVars, requestVars>>
    /\ UNCHANGED <<hookVars, redeliveryVars, initVars, adminVars>>

\* evaluateRuleNode(product, node) on a node of the built tree
EvaluateNode ==
    /\ pc = "built"
    /\ \E n \in TreeNodes(ruleTree) :
          /\ node' = n
          /\ result' = evaluateRuleNode(GraphqlNode(product), n)
    /\ pc' = "node"
    /\ UNCHANGED <<product, rules, ruleTree, hookResult>>
    /\ UNCHANGED <<hookVars, redeliveryVars, initVars, adminVars>>
    /\ UNCHANGED <<dbVars, shopVars, fetchVars, requestVars>>
    /\ UNCHANGED <<hookVars, redeliveryVars, initVars, adminVars>>

\* evaluateRuleTree(product, ruleTree)
EvaluateTree ==
    /\ pc = "built"
    /\ result' = evaluateRuleTree(GraphqlNode(product), ruleTree)
    /\ pc' = "tree"
    /\ UNCHANGED <<product, rules, ruleTree, node, hookResult>>
    /\ UNCHANGED <<hookVars, redeliveryVars, initVars, adminVars>>
    /\ UNCHANGED <<dbVars, shopVars, fetchVars, requestVars>>
    /\ UNCHANGED <<hookVars, redeliveryVars, initVars, adminVars>>

\* productMatchesRules(payload, rules) of the webhook handlers, on the same
\* item and rule rows
HookMatch ==
    /\ pc = "tree"
    /\ hookResult' = productMatchesRules(WebhookPayload(product), rules)
    /\ pc' = "hook"
    /\ UNCHANGED <<product, rules, ruleTree, node, result>>
    /\ UNCHANGED <<hookVars, redeliveryVars, initVars, adminVars>>
    /\ UNCHANGED <<dbVars, shopVars, fetchVars, requestVars>>
    /\ UNCHANGED <<hookVars, redeliveryVars, initVars, adminVars>>

NextMatch == MatchRule \/ BuildTree \/ EvaluateNode \/ EvaluateTree \/ HookMatch

SpecLeaf == InitLeaf /\ [][NextMatch]_vars
SpecTree == InitTree /\ [][NextMatch]_vars

----------------------------------------------------------------------------
(* The Admin API's products connection and fetchAllProducts *)

Min(a, b) == IF a < b THEN a ELSE b

\* products(first, after): the products after the cursor, at most `first`;
\* an edge's cursor is the product's position in the catalog.
ProductsPage(cat, first, after) ==
    [edges |-> [k \in 1..Min(first, Len(cat) - after) |->
                   [node |-> GraphqlNode(cat[after + k]), cursor |-> after + k]],
     hasNextPage |-> after + first < Len(cat)]

\* Variant: the cursor of the first edge of the page.
NextCursor_FirstEdge(edges) ==
    IF Len(edges) > 0 THEN edges[1].cursor ELSE 0

\* cursor = edges.length > 0 ? edges[edges.length - 1].cursor : null
NextCursor(edges) ==
    IF Len(edges) > 0 THEN edges[Len(edges)].cursor ELSE 0

\* Variant: every fetched product is returned.
FilterMatching_All(products, tree) == products

\* allProducts.filter(product => evaluateRuleTree(product, ruleTree))
FilterMatching(products, tree) ==
    SelectSeq(products, LAMBDA p : evaluateRuleTree(p, tree))

PreviewLimit == 10

----------------------------------------------------------------------------
(* Inputs of the request specifications *)

Keys == {<<"custom", "warranty">>, <<"custom", "origin">>}

Text2y == <<"2 years">>
Text5y == <<"5 years">>

ScalarField(key, text) ==
    Field("custom", key, "single_line_text_field", Str(text), <<>>, <<>>, <<>>)

\* metafield_configs as the create and update routes store them
FieldSets ==
    {<<ScalarField("warranty", Text2y)>>,
     <<ScalarField("warranty", Text5y), ScalarField("origin", <<"EU">>)>>,
     \* a reference that was not resolved when the configuration was saved
     <<Field("custom", "origin", "metaobject_reference", Obj(1), <<>>, <<"F", "1">>, <<>>),
       ScalarField("warranty", Text2y)>>,
     \* an empty value and a reference that is no metaobject id
     <<ScalarField("warranty", <<>>),
       Field("custom", "origin", "metaobject_reference", Str(<<"junk">>), <<>>, <<>>, <<>>)>>}

VendorX == Rule(1, NoParent, "vendor", "X", <<>>, "OR", 0, 0)

\* Rule lists as a request carries them (ids local to the request)
RuleTemplates ==
    {<<>>,
     <<VendorX>>,
     <<VendorX, Rule(2, 1, "category", "Cat1", <<>>, "AND", 1, 0)>>,
     <<Rule(1, NoParent, "vendor", "Y", <<>>, "AND", 0, 0),
       Rule(2, NoParent, "product", "v", JSONstringify(<<ProductGid(2)>>), "OR", 0, 1)>>}

CatalogItem(i, vendor) ==
    [id |-> i, vendor |-> vendor, category |-> IF i % 2 = 1 THEN Cat1 ELSE NoCategory,
     product_type |-> "T", collections |-> <<>>, title |-> "t"]

Catalogs ==
    UNION {{[i \in 1..n |-> CatalogItem(i, v[i])] : v \in [1..n -> {"X", "Y"}]}
           : n \in 0..MaxCatalog}

InitialMetafields(cat) ==
    [i \in 1..Len(cat) |->
        [k \in Keys |-> IF k = <<"custom", "warranty">> THEN <<"old">> ELSE <<>>]]

\* The tables after creating, in order, the configurations described by
\* `specs` (records with shop, priority, fields and rules).
RECURSIVE CreateAll(_, _)
CreateAll(db, specs) ==
    IF Len(specs) = 0 THEN db
    ELSE LET id == NextId(db.configurations)
             c == specs[1]
         IN CreateAll([configurations |->
                           createConfiguration(db.configurations, id, c.shop,
                                               determineConfigurationType(c.rules),
                                               c.fields, c.priority),
                       configuration_rules |->
                           bulkCreateRules(db.configuration_rules, id, c.rules,
                                           NextId(db.configuration_rules))],
                      Tail(specs))

EmptyDb == [configurations |-> <<>>, configuration_rules |-> <<>>]

----------------------------------------------------------------------------
(* configuration-routes.js: POST /preview, GET /:id/preview, POST /:id/apply *)

InitApply ==
    /\ pc = "idle"
    /\ \E fs \in FieldSets, rt \in RuleTemplates :
          LET db == CreateAll(EmptyDb,
                      <<[shop |-> "s1", priority |-> 1, fields |-> fs, rules |-> rt],
                        [shop |-> "s1", priority |-> 2,
                         fields |-> <<ScalarField("origin", <<"US">>)>>,
                         rules |-> <<Rule(1, NoParent, "vendor", "Y", <<>>, "OR", 0, 0)>>]>>)
          IN /\ configurations = db.configurations
             /\ configuration_rules = db.configuration_rules
    /\ catalog \in Catalogs
    /\ metafields = InitialMetafields(catalog)
    /\ rules = <<>>
    /\ ruleTree = <<>>
    /\ product = CatalogItem(1, "X")
    /\ node = NoNode
    /\ result = FALSE
    /\ hookResult = FALSE
    /\ IdleRequest
    /\ IdleHook
    /\ IdleRedelivery
    /\ IdleInit
    /\ IdleAdmin

StartFetch ==
    /\ allProducts' = <<>>
    /\ hasNextPage' = TRUE
    /\ cursor' = 0

\* POST /:id/apply and GET /:id/preview up to the 404 answer
SavedRequest ==
    /\ pc = "idle"
    /\ \E o \in {"apply", "saved"}, id \in {1, 2, 9} :
          LET configuration == getConfigurationById(configurations, id) IN
          /\ op' = o
          /\ cfg' = configuration
          /\ IF configuration = NoConfig
             THEN /\ response' = [NoResponse EXCEPT !.status = 404]
                  /\ pc' = "done"
             ELSE /\ response' = response
                  /\ pc' = "rules"
    /\ UNCHANGED <<rules, ruleTree, matcherVars, dbVars, shopVars, fetchVars,
                   matchingProducts, metafieldConfigs, idx, results, writeLog>>
    /\ UNCHANGED <<hookVars, redeliveryVars, initVars, adminVars>>

\* findMatchingProducts: getConfigurationRules and buildRuleTree
LoadRules ==
    /\ pc = "rules"
    /\ rules' = getConfigurationRules(configuration_rules, cfg.id)
    /\ ruleTree' = buildRuleTree(rules')
    /\ StartFetch
    /\ pc' = "fetch"
    /\ UNCHANGED <<matcherVars, dbVars, shopVars, requestVars>>
    /\ UNCHANGED <<hookVars, redeliveryVars, initVars, adminVars>>

\* POST /preview: previewMatchingProducts(client, rules || [])
PreviewRequest ==
    /\ pc = "idle"
    /\ \E rs \in RuleTemplates :
          /\ rules' = rs
          /\ ruleTree' = buildRuleTree(rs)
    /\ op' = "preview"
    /\ StartFetch
    /\ pc' = "fetch"
    /\ UNCHANGED <<matcherVars, dbVars, shopVars, cfg, matchingProducts,
                   metafieldConfigs, idx, results, response, writeLog>>
    /\ UNCHANGED <<hookVars, redeliveryVars, initVars, adminVars>>

\* fetchAllProducts: one turn of the while loop
FetchPage ==
    /\ pc = "fetch"
    /\ hasNextPage
    /\ LET page == ProductsPage(catalog, PageSize, cursor) IN
          /\ allProducts' = allProducts \o [k \in 1..Len(page.edges) |-> page.edges[k].node]
          /\ hasNextPage' = page.hasNextPage
          /\ cursor' = NextCursor(page.edges)
    /\ UNCHANGED <<pc, rules, ruleTree, matcherVars, dbVars, shopVars, requestVars>>
    /\ UNCHANGED <<hookVars, redeliveryVars, initVars, adminVars>>

\* fetchAllProducts: graphqlClient.query rejects; the route answers 500
FetchFail ==
    /\ pc = "fetch"
    /\ hasNextPage
    /\ response' = [NoResponse EXCEPT !.status = 500]
    /\ pc' = "done"
    /\ UNCHANGED <<rules, ruleTree, matcherVars, dbVars, shopVars, fetchVars, op, cfg,
                   matchingProducts, metafieldConfigs, idx, results, writeLog>>
    /\ UNCHANGED <<hookVars, redeliveryVars, initVars, adminVars>>

\* find/previewMatchingProducts: the filter, and the answer of the previews
FilterProducts ==
    /\ pc = "fetch"
    /\ ~hasNextPage
    /\ matchingProducts' = FilterMatching(allProducts, ruleTree)
    /\ IF op = "apply"
       THEN /\ pc' = "process"
            /\ response' = response
       ELSE /\ pc' = "done"
            /\ response' = [status |-> 200, count |-> Len(matchingProducts'),
                            products |-> SubSeq(matchingProducts', 1,
                                            Min(PreviewLimit, Len(matchingProducts')))]
    /\ UNCHANGED <<rules, ruleTree, matcherVars, dbVars, shopVars, fetchVars, op, cfg,
                   metafieldConfigs, idx, results, writeLog>>
    /\ UNCHANGED <<hookVars, redeliveryVars, initVars, adminVars>>

\* POST /:id/apply: processMetafieldConfigs, then the results object
ProcessConfigs ==
    /\ pc = "process"
    /\ \E o \in processMetafieldConfigs(cfg.metafield_configs, metaobjectCalls) :
          /\ metaobjectCalls' = metaobjectCalls + o.calls
          /\ IF o.threw
             THEN /\ response' = [NoResponse EXCEPT !.status = 500]
                  /\ pc' = "done"
                  /\ UNCHANGED <<metafieldConfigs, results, idx>>
             ELSE /\ metafieldConfigs' = o.processed
                  /\ results' = [total |-> Len(matchingProducts), successful |-> 0,
                                 failed |-> 0, errors |-> <<>>]
                  /\ idx' = 1
                  /\ pc' = "loop"
                  /\ response' = response
    /\ UNCHANGED <<rules, ruleTree, matcherVars, dbVars, shopVars, fetchVars, op, cfg,
                   matchingProducts, writeLog>>
    /\ UNCHANGED <<hookVars, redeliveryVars, initVars, serial, req, reply, snapshot, unchecked,
                   observed>>

\* The product of the catalog a product id names.
ItemOf(gid) == CHOOSE i \in 1..Len(catalog) : ProductGid(catalog[i].id) = gid

\* Variant: the first failed write ends the loop.
ApplyItem_StopOnFailure ==
    /\ pc = "loop"
    /\ idx <= Len(matchingProducts)
    /\ LET p == matchingProducts[idx]
           input == BuildMetafields(metafieldConfigs)
       IN \/ /\ metafields' = [metafields EXCEPT
                                  ![ItemOf(p.id)] = ProductUpdate(@, input)]
             /\ results' = [results EXCEPT !.successful = @ + 1]
             /\ writeLog' = Append(writeLog, [productId |-> p.id, ok |-> TRUE])
             /\ idx' = idx + 1
          \/ /\ results' = [results EXCEPT !.failed = @ + 1,
                               !.errors = Append(@, [productId |-> p.id])]
             /\ writeLog' = Append(writeLog, [productId |-> p.id, ok |-> FALSE])
             /\ idx' = Len(matchingProducts) + 1
             /\ metafields' = metafields
    /\ UNCHANGED <<pc, rules, ruleTree, matcherVars, dbVars, catalog, fetchVars, op, cfg,
                   matchingProducts, metafieldConfigs, response>>
    /\ UNCHANGED <<hookVars, redeliveryVars, initVars, adminVars>>

\* POST /:id/apply: one turn of the for-of loop; applyMetafieldsToProduct
\* either updates the product or throws
ApplyItem ==
    /\ pc = "loop"
    /\ idx <= Len(matchingProducts)
    /\ LET p == matchingProducts[idx]
           input == BuildMetafields(metafieldConfigs)
       IN \/ /\ metafields' = [metafields EXCEPT
                                  ![ItemOf(p.id)] = ProductUpdate(@, input)]
             /\ results' = [results EXCEPT !.successful = @ + 1]
             /\ writeLog' = Append(writeLog, [productId |-> p.id, ok |-> TRUE])
          \/ /\ results' = [results EXCEPT !.failed = @ + 1,
                               !.errors = Append(@, [productId |-> p.id])]
             /\ writeLog' = Append(writeLog, [productId |-> p.id, ok |-> FALSE])
             /\ metafields' = metafields
    /\ idx' = idx + 1
    /\ UNCHANGED <<pc, rules, ruleTree, matcherVars, dbVars, catalog, fetchVars, op, cfg,
                   matchingProducts, metafieldConfigs, response>>
    /\ UNCHANGED <<hookVars, redeliveryVars, initVars, adminVars>>

\* POST /:id/apply: res.json(results)
ApplyRespond ==
    /\ pc = "loop"
    /\ idx > Len(matchingProducts)
    /\ response' = [status |-> 200, count |-> results.total, products |-> <<>>]
    /\ pc' = "done"
    /\ UNCHANGED <<rules, ruleTree, matcherVars, dbVars, shopVars, fetchVars, op, cfg,
                   matchingProducts, metafieldConfigs, idx, results, writeLog>>
    /\ UNCHANGED <<hookVars, redeliveryVars, initVars, adminVars>>

NextApply ==
    \/ SavedRequest \/ LoadRules \/ PreviewRequest \/ FetchPage \/ FetchFail
    \/ FilterProducts \/ ProcessConfigs \/ ApplyItem \/ ApplyRespond

SpecApply == InitApply /\ [][NextApply]_vars

----------------------------------------------------------------------------
(* webhooks.js: handleProductCreate / handleProductUpdate (the same code) *)

MaxConfigs == 2     \* most configurations in the table

HookFieldSets ==
    {<<ScalarField("warranty", Text2y)>>,
     <<ScalarField("warranty", Text5y), ScalarField("origin", <<"EU">>)>>,
     <<Field("custom", "origin", "metaobject_reference", Obj(1), <<>>, <<"F", "1">>, <<>>),
       ScalarField("warranty", Text2y)>>}

\* The third list is what the rule editor stores for the product picker with
\* the event's item selected.
HookRuleTemplates ==
    {<<>>, <<VendorX>>, <<Rule(1, NoParent, "vendor", "Y", <<>>, "OR", 0, 0)>>,
     <<Rule(1, NoParent, "product", "v", JSONstringify(<<ProductGid(1)>>), "OR", 0, 0)>>}

\* Configurations of the event's tenant s1, and of another tenant
ConfigSpecs ==
    [shop : {"s1"}, priority : {1, 2}, fields : HookFieldSets, rules : HookRuleTemplates]
    \cup [shop : {"s2"}, priority : {1, 2}, fields : {<<ScalarField("warranty", Text5y)>>},
          rules : {<<>>}]

InitHook ==
    /\ pc = "idle"
    /\ \E n \in 1..MaxConfigs : \E specs \in [1..n -> ConfigSpecs] :
          LET db == CreateAll(EmptyDb, specs) IN
          /\ configurations = db.configurations
          /\ configuration_rules = db.configuration_rules
    /\ product = CatalogItem(1, "X")
    /\ catalog = <<product>>
    /\ metafields = InitialMetafields(catalog)
    /\ rules = <<>>
    /\ ruleTree = <<>>
    /\ node = NoNode
    /\ result = FALSE
    /\ hookResult = FALSE
    /\ IdleRequest
    /\ IdleHook
    /\ IdleRedelivery
    /\ IdleInit
    /\ IdleAdmin

\* catch (error) of the handler: the error is logged and not rethrown.
OuterCatch(cause) == [how |-> "returned", cause |-> cause]

\* Variant: the inner catch lets the failure reach the handler's catch.
InnerCatch_Escapes == "escape"

\* catch (error) around processMetafieldConfigs and applyMetafieldsToProduct:
\* the error is logged and the for-of loop goes on.
InnerCatch == "continue"

\* What the handler did with one configuration, as its console output tells;
\* `input` is the metafields list of the productUpdate that succeeded.
LogEntry(config, matched, outcome, input) ==
    [config |-> config.id, priority |-> config.priority, matched |-> matched,
     outcome |-> outcome, input |-> input]

\* The handler is called; JSON.parse(body) and payload.id
HookReceive ==
    /\ pc = "idle"
    /\ \E topic \in {"PRODUCTS_CREATE", "PRODUCTS_UPDATE"} : op' = topic
    /\ shop' = "s1"
    /\ \/ /\ pc' = "hookSession"
          /\ hookExit' = hookExit
       \/ \* the body is no JSON text, or parses to null
          /\ hookExit' = OuterCatch("parse")
          /\ pc' = "hookDone"
    /\ UNCHANGED <<rules, ruleTree, matcherVars, dbVars, shopVars, fetchVars, cfg,
                   matchingProducts, metafieldConfigs, idx, results, response, writeLog,
                   hookConfigurations, appliedCount, hookLog>>
    /\ UNCHANGED <<redeliveryVars, initVars, adminVars>>

\* sessionStorage.loadSession(sessionId)
HookSession ==
    /\ pc = "hookSession"
    /\ \/ /\ pc' = "hookLoad"
          /\ hookExit' = hookExit
       \/ \* no offline session is stored: return
          /\ hookExit' = [how |-> "returned", cause |-> "nosession"]
          /\ pc' = "hookDone"
       \/ \* the session storage rejects
          /\ hookExit' = OuterCatch("session")
          /\ pc' = "hookDone"
    /\ UNCHANGED <<rules, ruleTree, matcherVars, dbVars, shopVars, fetchVars, requestVars,
                   shop, hookConfigurations, appliedCount, hookLog>>
    /\ UNCHANGED <<redeliveryVars, initVars, adminVars>>

\* database.getAllConfigurations(shop)
HookLoad ==
    /\ pc = "hookLoad"
    /\ \/ LET loaded == getAllConfigurations(configurations, shop) IN
          /\ hookConfigurations' = loaded
          /\ IF Len(loaded) = 0
             THEN /\ hookExit' = [how |-> "returned", cause |-> "noconfigs"]
                  /\ pc' = "hookDone"
                  /\ UNCHANGED <<appliedCount, idx>>
             ELSE /\ appliedCount' = 0
                  /\ idx' = 1
                  /\ pc' = "hookRules"
                  /\ hookExit' = hookExit
       \/ \* the query rejects
          /\ hookExit' = OuterCatch("store")
          /\ pc' = "hookDone"
          /\ UNCHANGED <<hookConfigurations, appliedCount, idx>>
    /\ UNCHANGED <<rules, ruleTree, matcherVars, dbVars, shopVars, fetchVars, op, cfg,
                   matchingProducts, metafieldConfigs, results, response, writeLog,
                   shop, hookLog>>
    /\ UNCHANGED <<redeliveryVars, initVars, adminVars>>

\* for (const config of configurations): getConfigurationRules and
\* productMatchesRules
HookRules ==
    /\ pc = "hookRules"
    /\ idx <= Len(hookConfigurations)
    /\ \/ LET config == hookConfigurations[idx]
              loaded == getConfigurationRules(configuration_rules, config.id)
          IN /\ rules' = loaded
             /\ IF productMatchesRules(WebhookPayload(product), loaded)
                THEN /\ pc' = "hookProcess"
                     /\ UNCHANGED <<idx, hookLog>>
                ELSE /\ hookLog' = Append(hookLog, LogEntry(config, FALSE, "skipped", <<>>))
                     /\ idx' = idx + 1
                     /\ pc' = pc
             /\ hookExit' = hookExit
       \/ \* the query rejects, outside the inner try
          /\ hookExit' = OuterCatch("store")
          /\ pc' = "hookDone"
          /\ UNCHANGED <<rules, idx, hookLog>>
    /\ UNCHANGED <<ruleTree, matcherVars, dbVars, shopVars, fetchVars, op, cfg,
                   matchingProducts, metafieldConfigs, results, response, writeLog,
                   shop, hookConfigurations, appliedCount>>
    /\ UNCHANGED <<redeliveryVars, initVars, adminVars>>

\* What follows a failure inside the inner try for configuration `config`.
AfterApplyFailure(config, outcome) ==
    IF InnerCatch = "continue"
    THEN /\ hookLog' = Append(hookLog, LogEntry(config, TRUE, outcome, <<>>))
         /\ idx' = idx + 1
         /\ pc' = "hookRules"
         /\ hookExit' = hookExit
    ELSE /\ hookLog' = Append(hookLog, LogEntry(config, TRUE, outcome, <<>>))
         /\ idx' = idx
         /\ pc' = "hookDone"
         /\ hookExit' = OuterCatch(outcome)

\* try: processMetafieldConfigs(session, config.metafield_configs)
HookProcess ==
    /\ pc = "hookProcess"
    /\ LET config == hookConfigurations[idx] IN
       \E o \in webhookProcessMetafieldConfigs(config.metafield_configs, metaobjectCalls) :
          /\ metaobjectCalls' = metaobjectCalls + o.calls
          /\ IF o.threw
             THEN /\ AfterApplyFailure(config, "resolveFailed")
                  /\ UNCHANGED metafieldConfigs
             ELSE /\ metafieldConfigs' = o.processed
                  /\ pc' = "hookWrite"
                  /\ UNCHANGED <<idx, hookLog, hookExit>>
    /\ UNCHANGED <<rules, ruleTree, matcherVars, dbVars, shopVars, fetchVars, op, cfg,
                   matchingProducts, results, response, writeLog,
                   shop, hookConfigurations, appliedCount>>
    /\ UNCHANGED <<redeliveryVars, initVars, serial, req, reply, snapshot, unchecked, observed>>

\* try: applyMetafieldsToProduct(session, productId, metafieldConfigs);
\* appliedCount++
HookWrite ==
    /\ pc = "hookWrite"
    /\ LET config == hookConfigurations[idx]
           input == BuildMetafields(metafieldConfigs)
       IN \/ /\ metafields' = [metafields EXCEPT ![product.id] = ProductUpdate(@, input)]
             /\ writeLog' = Append(writeLog, [productId |-> ProductGid(product.id),
                                              ok |-> TRUE])
             /\ appliedCount' = appliedCount + 1
             /\ hookLog' = Append(hookLog, LogEntry(config, TRUE, "applied", input))
             /\ idx' = idx + 1
             /\ pc' = "hookRules"
             /\ hookExit' = hookExit
          \/ /\ writeLog' = Append(writeLog, [productId |-> ProductGid(product.id),
                                              ok |-> FALSE])
             /\ AfterApplyFailure(config, "writeFailed")
             /\ UNCHANGED <<metafields, appliedCount>>
    /\ UNCHANGED <<rules, ruleTree, matcherVars, dbVars, catalog, fetchVars, op, cfg,
                   matchingProducts, metafieldConfigs, results, response,
                   shop, hookConfigurations>>
    /\ UNCHANGED <<redeliveryVars, initVars, adminVars>>

\* The for-of loop is over: the handler logs the count and returns
HookReturn ==
    /\ pc = "hookRules"
    /\ idx > Len(hookConfigurations)
    /\ hookExit' = [how |-> "returned", cause |-> "completed"]
    /\ pc' = "hookDone"
    /\ UNCHANGED <<rules, ruleTree, matcherVars, dbVars, shopVars, fetchVars, requestVars,
                   shop, hookConfigurations, appliedCount, hookLog>>
    /\ UNCHANGED <<redeliveryVars, initVars, adminVars>>

NextHook ==
    \/ HookReceive \/ HookSession \/ HookLoad \/ HookRules \/ HookProcess
    \/ HookWrite \/ HookReturn

SpecHook == InitHook /\ [][NextHook]_vars

MaxDeliveries == 2   \* most deliveries of the event

\* The delivery mechanism delivers the event again after the handler has
\* returned; the handler starts anew (its locals are gone), the tables and
\* the shop are as the run before left them.
HookRedeliver ==
    /\ pc = "hookDone"
    /\ deliveries + 1 < MaxDeliveries
    /\ deliveries' = deliveries + 1
    /\ firstRun' = IF deliveries = 0
                   THEN [fields |-> metafields[product.id], log |-> hookLog]
                   ELSE firstRun
    /\ pc' = "idle"
    /\ rules' = <<>>
    /\ op' = "none"
    /\ metafieldConfigs' = <<>>
    /\ idx' = 0
    /\ shop' = ""
    /\ hookConfigurations' = <<>>
    /\ appliedCount' = 0
    /\ hookLog' = <<>>
    /\ hookExit' = Running
    /\ UNCHANGED <<ruleTree, matcherVars, dbVars, shopVars, fetchVars, cfg,
                   matchingProducts, results, response, writeLog, adminVars, initVars>>

NextRedelivery == NextHook \/ HookRedeliver

SpecRedelivery == InitHook /\ [][NextRedelivery]_vars

----------------------------------------------------------------------------
(* configuration-routes.js: the routes that read and write configurations.   *)
(* One request is served at a time; each action is one awaited call of the   *)
(* route with the synchronous code around it.                                *)

MaxConfigSerial == 2      \* most configurations ever inserted
MaxRuleSerial == 5        \* most rules ever inserted
MaxMetaobjectCalls == 2   \* most metaobject create/update calls
MaxRequests == 3          \* most requests served in a run

WithDisplay(f, displayType) == f @@ [displayType |-> displayType]

\* mf.displayType, undefined read as ''
DisplayTypeOf(mf) == IF "displayType" \in DOMAIN mf THEN mf.displayType ELSE ""

\* req.body.metafieldConfigs: absent, empty, or a list the editor sends
AdminFieldInputs ==
    {[present |-> FALSE, list |-> <<>>],
     [present |-> TRUE, list |-> <<>>],
     [present |-> TRUE,
      list |-> <<WithDisplay(ScalarField("warranty", Text2y), "text")>>],
     [present |-> TRUE,
      list |-> <<WithDisplay(Field("custom", "origin", "metaobject_reference", Obj(1),
                                   <<"D", "1">>, <<>>, <<>>), ""),
                 WithDisplay(ScalarField("warranty", Text5y), "")>>]}

\* req.body.rules
AdminRuleTemplates ==
    {<<>>,
     <<VendorX>>,
     <<VendorX, Rule(2, 1, "category", "Cat1", <<>>, "AND", 1, 0)>>}

\* What PUT /:id is sent in these runs
UpdateFieldInputs ==
    {f \in AdminFieldInputs : Len(f.list) <= 1}

UpdateRuleTemplates == {<<>>, <<VendorX>>}

AdminIds == {1, 2, 9}

\* req.body.priorities
PriorityInputs ==
    {<<[id |-> 9, priority |-> 5]>>,
     <<[id |-> 1, priority |-> 5], [id |-> 9, priority |-> 1]>>}

InitAdmin ==
    /\ pc = "idle"
    /\ configurations = <<>>
    /\ configuration_rules = <<>>
    /\ product = CatalogItem(2, "Y")
    /\ catalog = <<CatalogItem(1, "X"), product>>
    /\ metafields = InitialMetafields(catalog)
    /\ rules = <<>>
    /\ ruleTree = <<>>
    /\ node = NoNode
    /\ result = FALSE
    /\ hookResult = FALSE
    /\ IdleRequest
    /\ IdleHook
    /\ IdleRedelivery
    /\ IdleInit
    /\ IdleAdmin

nonAdminVars == <<rules, ruleTree, matcherVars, shopVars, fetchVars, requestVars,
                  hookVars, redeliveryVars, initVars>>

AtRest == pc \in {"idle", "adminDone"}

Db == [configurations |-> configurations, configuration_rules |-> configuration_rules]

\* The state a request finds when it begins
Begin(r) ==
    /\ AtRest
    /\ snapshot.requests < MaxRequests
    /\ req' = r
    /\ observed' = NoObservation
    /\ snapshot' = [configurations |-> configurations,
                    configuration_rules |-> configuration_rules,
                    metaobjectCalls |-> metaobjectCalls, writes |-> Len(writeLog),
                    requests |-> snapshot.requests + 1]

Request(kind, id, rs, fields, show, priorities) ==
    [kind |-> kind, id |-> id, shop |-> "s1", rules |-> rs, fields |-> fields,
     showOnStorefront |-> show, priorities |-> priorities]

Answer(status, body) ==
    /\ reply' = [status |-> status, body |-> body]
    /\ pc' = "adminDone"

\* Variant: only an absent list is rejected.
FieldSpecsMissing_AbsentOnly(fields) == ~fields.present

\* !metafieldConfigs || metafieldConfigs.length === 0
FieldSpecsMissing(fields) == ~fields.present \/ Len(fields.list) = 0

\* POST /: validation
CreateRequest ==
    /\ \E fields \in AdminFieldInputs, rs \in AdminRuleTemplates :
          /\ Begin(Request("create", 0, rs, fields, FALSE, <<>>))
          /\ IF FieldSpecsMissing(fields)
             THEN Answer(400, <<>>)
             ELSE /\ pc' = "createProcess"
                  /\ reply' = NoReply
    /\ UNCHANGED <<dbVars, serial, metaobjectCalls, unchecked, nonAdminVars>>

\* POST /: processMetafieldConfigs(session, metafieldConfigs)
CreateProcess ==
    /\ pc = "createProcess"
    /\ \E o \in processMetafieldConfigs(req.fields.list, metaobjectCalls) :
          /\ metaobjectCalls + o.calls <= MaxMetaobjectCalls
          /\ metaobjectCalls' = metaobjectCalls + o.calls
          /\ IF o.threw
             THEN /\ Answer(500, <<>>)
                  /\ UNCHANGED req
             ELSE /\ req' = [req EXCEPT !.fields.list = o.processed]
                  /\ pc' = "createInsert"
                  /\ reply' = reply
    /\ UNCHANGED <<dbVars, serial, snapshot, unchecked, observed, nonAdminVars>>

\* POST /: determineConfigurationType and database.createConfiguration
CreateInsert ==
    /\ pc = "createInsert"
    /\ serial.configurations <= MaxConfigSerial
    /\ configurations' =
           createConfiguration(configurations, serial.configurations, req.shop,
                               determineConfigurationType(req.rules),
                               req.fields.list, 0)
    /\ req' = [req EXCEPT !.id = serial.configurations]
    /\ serial' = [serial EXCEPT !.configurations = @ + 1]
    /\ pc' = "createRules"
    /\ UNCHANGED <<configuration_rules, reply, snapshot, metaobjectCalls, unchecked,
                   observed, nonAdminVars>>

\* POST /: database.bulkCreateRules, then the answer with the row and its rules
CreateRules ==
    /\ pc = "createRules"
    /\ serial.configuration_rules + Len(req.rules) <= MaxRuleSerial + 1
    /\ configuration_rules' =
           IF Len(req.rules) > 0
           THEN bulkCreateRules(configuration_rules, req.id, req.rules,
                                serial.configuration_rules)
           ELSE configuration_rules
    /\ serial' = [serial EXCEPT !.configuration_rules = @ + Len(req.rules)]
    /\ Answer(201, <<getConfigurationById(configurations, req.id)>>)
    /\ UNCHANGED <<configurations, req, snapshot, metaobjectCalls, unchecked, observed,
                   nonAdminVars>>

\* PUT /:id: getConfigurationById and the 404 answer
UpdateRequest ==
    /\ \E id \in AdminIds, fields \in UpdateFieldInputs, rs \in UpdateRuleTemplates,
          show \in BOOLEAN :
          /\ Begin(Request("update", id, rs, fields, show, <<>>))
          /\ IF getConfigurationById(configurations, id) = NoConfig
             THEN Answer(404, <<>>)
             ELSE /\ pc' = "updateProcess"
                  /\ reply' = NoReply
    /\ UNCHANGED <<dbVars, serial, metaobjectCalls, unchecked, nonAdminVars>>

\* PUT /:id: processMetafieldConfigs(session, metafieldConfigs); for-of over
\* an absent list throws a TypeError
UpdateProcess ==
    /\ pc = "updateProcess"
    /\ IF ~req.fields.present
       THEN /\ Answer(500, <<>>)
            /\ UNCHANGED <<req, metaobjectCalls>>
       ELSE \E o \in processMetafieldConfigs(req.fields.list, metaobjectCalls) :
               /\ metaobjectCalls + o.calls <= MaxMetaobjectCalls
               /\ metaobjectCalls' = metaobjectCalls + o.calls
               /\ IF o.threw
                  THEN /\ Answer(500, <<>>)
                       /\ UNCHANGED req
                  ELSE /\ req' = [req EXCEPT !.fields.list = o.processed]
                       /\ pc' = "updateWrite"
                       /\ reply' = reply
    /\ UNCHANGED <<dbVars, serial, snapshot, unchecked, observed, nonAdminVars>>

\* PUT /:id: determineConfigurationType and database.updateConfiguration(id,
\* finalName, type, processedConfigs, showOnStorefront || false, ...)
UpdateWrite ==
    /\ pc = "updateWrite"
    /\ configurations' = updateConfiguration(configurations, req.id,
                                             determineConfigurationType(req.rules),
                                             req.fields.list)
    /\ pc' = "updateDelete"
    /\ UNCHANGED <<configuration_rules, adminVars, nonAdminVars>>

\* PUT /:id: database.deleteConfigurationRules(id)
UpdateDeleteRules ==
    /\ pc = "updateDelete"
    /\ configuration_rules' = deleteConfigurationRules(configuration_rules, req.id)
    /\ pc' = "updateCreate"
    /\ UNCHANGED <<configurations, adminVars, nonAdminVars>>

\* PUT /:id: database.bulkCreateRules(id, rules), then the answer
UpdateCreateRules ==
    /\ pc = "updateCreate"
    /\ serial.configuration_rules + Len(req.rules) <= MaxRuleSerial + 1
    /\ configuration_rules' =
           IF Len(req.rules) > 0
           THEN bulkCreateRules(configuration_rules, req.id, req.rules,
                                serial.configuration_rules)
           ELSE configuration_rules
    /\ serial' = [serial EXCEPT !.configuration_rules = @ + Len(req.rules)]
    /\ unchecked' = IF req.showOnStorefront THEN unchecked \ {req.id}
                    ELSE unchecked \cup {req.id}
    /\ Answer(200, <<getConfigurationById(configurations, req.id)>>)
    /\ UNCHANGED <<configurations, req, snapshot, metaobjectCalls, observed,
                   nonAdminVars>>

\* DELETE /:id
DeleteRequest ==
    /\ \E id \in AdminIds :
          /\ Begin(Request("delete", id, <<>>, [present |-> FALSE, list |-> <<>>],
                           FALSE, <<>>))
          /\ IF getConfigurationById(configurations, id) = NoConfig
             THEN /\ Answer(404, <<>>)
                  /\ UNCHANGED <<dbVars, unchecked>>
             ELSE /\ configurations' = deleteConfiguration(Db, id).configurations
                  /\ configuration_rules' = deleteConfiguration(Db, id).configuration_rules
                  /\ unchecked' = unchecked \ {id}
                  /\ Answer(200, <<>>)
    /\ UNCHANGED <<serial, metaobjectCalls, nonAdminVars>>

\* POST /:id/duplicate
DuplicateRequest ==
    /\ \E id \in AdminIds :
          /\ Begin(Request("duplicate", id, <<>>, [present |-> FALSE, list |-> <<>>],
                           FALSE, <<>>))
          /\ IF getConfigurationById(configurations, id) = NoConfig
             THEN /\ Answer(404, <<>>)
                  /\ UNCHANGED <<dbVars, serial>>
             ELSE LET copied == duplicateConfiguration(Db, id, "s1", serial)
                      n == Len(getConfigurationRules(configuration_rules, id))
                  IN /\ serial.configurations <= MaxConfigSerial
                     /\ serial.configuration_rules + n <= MaxRuleSerial + 1
                     /\ configurations' = copied.configurations
                     /\ configuration_rules' = copied.configuration_rules
                     /\ serial' = [configurations |-> serial.configurations + 1,
                                   configuration_rules |-> serial.configuration_rules + n]
                     /\ Answer(201, <<getConfigurationById(copied.configurations,
                                                           serial.configurations)>>)
    /\ UNCHANGED <<metaobjectCalls, unchecked, nonAdminVars>>

\* PUT /priorities (the body's priorities is an array)
PrioritiesRequest ==
    /\ \E ps \in PriorityInputs :
          /\ Begin(Request("priorities", 0, <<>>, [present |-> FALSE, list |-> <<>>],
                           FALSE, ps))
          /\ configurations' = updateAllPriorities(configurations, ps)
    /\ Answer(200, <<>>)
    /\ UNCHANGED <<configuration_rules, serial, metaobjectCalls, unchecked, nonAdminVars>>

\* GET /:id
GetRequest ==
    /\ \E id \in AdminIds :
          /\ Begin(Request("get", id, <<>>, [present |-> FALSE, list |-> <<>>],
                           FALSE, <<>>))
          /\ IF getConfigurationById(configurations, id) = NoConfig
             THEN Answer(404, <<>>)
             ELSE Answer(200, <<getConfigurationById(configurations, id)>>)
    /\ UNCHANGED <<dbVars, serial, metaobjectCalls, unchecked, nonAdminVars>>

\* A product event handled while a request is being served: what
\* getConfigurationRules and productMatchesRules give it for a configuration
ObserveEvent ==
    /\ pc \in {"updateWrite", "updateDelete", "updateCreate", "createRules"}
    /\ \E i \in 1..Len(configurations) :
          LET rs == getConfigurationRules(configuration_rules, configurations[i].id) IN
          observed' = [config |-> configurations[i].id, rules |-> Len(rs),
                       matches |-> productMatchesRules(WebhookPayload(product), rs)]
    /\ UNCHANGED <<pc, dbVars, serial, req, reply, snapshot, metaobjectCalls, unchecked,
                   nonAdminVars>>

----------------------------------------------------------------------------
(* index.js: GET /storefront-config *)

\* productByHandle(handle) as checkIfConfigApplies queries it
StorefrontNode(item) ==
    [id |-> ProductGid(item.id), handle |-> "item", vendor |-> item.vendor,
     productType |-> item.product_type,
     collections |-> [k \in 1..Len(item.collections) |->
                         [id |-> item.collections[k].id, handle |-> "summer",
                          title |-> item.collections[k].title]]]

\* The comparison of both fallback branches of case 'collection'
CollectionFallback(prod, rule) ==
    \E k \in 1..Len(prod.collections) :
        \/ prod.collections[k].id = rule.rule_id
        \/ prod.collections[k].handle = rule.rule_value
        \/ prod.collections[k].title = rule.rule_value

\* The switch of checkIfConfigApplies; a rule_id of null parses to null
storefrontRuleMatches(prod, rule) ==
    LET parsed == JSONparse(rule.rule_id)
        isNull == rule.rule_id = <<>>
    IN CASE rule.rule_type = "vendor" -> prod.vendor = rule.rule_value
         [] rule.rule_type = "product" ->
               IF isNull THEN FALSE
               ELSE IF parsed.ok THEN parsed.kind = "array" /\ Includes(parsed, prod.id)
               ELSE prod.id = rule.rule_id \/ prod.handle = rule.rule_value
         [] rule.rule_type = "category" -> prod.productType = rule.rule_value
         [] rule.rule_type = "collection" ->
               IF ~isNull /\ parsed.ok /\ parsed.kind = "array"
               THEN \E k \in 1..Len(prod.collections) :
                        Includes(parsed, prod.collections[k].id)
               ELSE CollectionFallback(prod, rule)
         [] OTHER -> FALSE

\* checkIfConfigApplies(shop, productHandle, rules): any rule of the flat list
checkIfConfigApplies(hasSession, item, rs) ==
    IF Len(rs) = 0 THEN TRUE
    ELSE IF ~hasSession THEN FALSE
    ELSE \E k \in 1..Len(rs) : storefrontRuleMatches(StorefrontNode(item), rs[k])

\* fetchMetafieldValue for a text metafield: its value, or null (the empty text)
fetchMetafieldValue(hasSession, stored, k) == IF hasSession THEN stored[k] ELSE <<>>

\* The entries one configuration adds to metafieldsToDisplay
RECURSIVE ConfigEntries(_, _, _)
ConfigEntries(hasSession, stored, mfs) ==
    IF Len(mfs) = 0 THEN <<>>
    ELSE LET mf == mfs[1]
             value == fetchMetafieldValue(hasSession, stored, <<mf.namespace, mf.key>>)
             rest == ConfigEntries(hasSession, stored, Tail(mfs))
         IN IF DisplayTypeOf(mf) = "" \/ value = <<>> THEN rest
            ELSE <<[namespace |-> mf.namespace, key |-> mf.key,
                    displayType |-> DisplayTypeOf(mf), value |-> value,
                    showOnStorefront |-> TRUE]>> \o rest

\* The loop over configs.rows
RECURSIVE StorefrontEntries(_, _, _)
StorefrontEntries(hasSession, item, rows) ==
    IF Len(rows) = 0 THEN <<>>
    ELSE (IF checkIfConfigApplies(hasSession, item,
                                  getConfigurationRules(configuration_rules, rows[1].id))
          THEN ConfigEntries(hasSession, metafields[item.id], rows[1].metafield_configs)
          ELSE <<>>)
         \o StorefrontEntries(hasSession, item, Tail(rows))

\* SELECT ... WHERE shop = ? ORDER BY priority DESC: the orders the statement
\* allows for the rows of the shop
StorefrontRowOrders(forShop) ==
    LET S == {r \in Rows(configurations) : r.shop = forShop}
        n == Cardinality(S)
    IN {o \in [1..n -> S] :
           /\ \A i, j \in 1..n : i # j => o[i] # o[j]
           /\ \A i, j \in 1..n : i < j => o[i].priority >= o[j].priority}

\* GET /storefront-config?shop=s1&product=<handle of the item>
StorefrontRequest ==
    /\ Begin(Request("storefront", 0, <<>>, [present |-> FALSE, list |-> <<>>],
                     FALSE, <<>>))
    /\ \E hasSession \in BOOLEAN, rows \in StorefrontRowOrders("s1") :
          Answer(200, StorefrontEntries(hasSession, product, rows))
    /\ UNCHANGED <<dbVars, serial, metaobjectCalls, unchecked, nonAdminVars>>

NextAdmin ==
    \/ CreateRequest \/ CreateProcess \/ CreateInsert \/ CreateRules
    \/ UpdateRequest \/ UpdateProcess \/ UpdateWrite \/ UpdateDeleteRules
    \/ UpdateCreateRules
    \/ DeleteRequest \/ DuplicateRequest \/ PrioritiesRequest \/ GetRequest
    \/ ObserveEvent \/ StorefrontRequest

SpecAdmin == InitAdmin /\ [][NextAdmin]_vars

----------------------------------------------------------------------------
(* The routes of shop s1 on tables that hold a configuration of shop s2 *)

OtherShop == "s2"

\* The tables after shop s2 created a configuration with one rule
InitTenants ==
    /\ pc = "idle"
    /\ configurations = createConfiguration(<<>>, 1, OtherShop, "vendor",
                                            <<ScalarField("warranty", Text5y)>>, 0)
    /\ configuration_rules = bulkCreateRules(<<>>, 1, <<VendorX>>, 1)
    /\ serial = [configurations |-> 2, configuration_rules |-> 2]
    /\ product = CatalogItem(2, "Y")
    /\ catalog = <<CatalogItem(1, "X"), product>>
    /\ metafields = InitialMetafields(catalog)
    /\ rules = <<>>
    /\ ruleTree = <<>>
    /\ node = NoNode
    /\ result = FALSE
    /\ hookResult = FALSE
    /\ req = NoRequest
    /\ reply = NoReply
    /\ snapshot = NoSnapshot
    /\ metaobjectCalls = 0
    /\ unchecked = {}
    /\ observed = NoObservation
    /\ IdleRequest
    /\ IdleHook
    /\ IdleRedelivery
    /\ IdleInit

SpecTenants == InitTenants /\ [][NextAdmin]_vars

----------------------------------------------------------------------------
(* The routes when a statement of the database is rejected (a constraint is  *)
(* violated, the connection is lost): the await throws and the route's catch *)
(* answers 500.  No statement of a route runs in a transaction.              *)

\* bulkCreateRules whose INSERT number k + 1 is rejected: the first k rules of
\* the sorted list are stored
bulkCreateRules_Rejected(table, configId, rs, nextval, k) ==
    CreateSorted(table, configId, SubSeq(SortByLevel(rs), 1, k), [j \in {} |-> 0], nextval)

\* POST /: catch (error) after createConfiguration or bulkCreateRules rejected
CreateCatch ==
    /\ \/ /\ pc = "createInsert"
          /\ UNCHANGED <<configuration_rules, serial>>
       \/ /\ pc = "createRules"
          /\ \E k \in 0..(Len(req.rules) - 1) :
                /\ serial.configuration_rules + k <= MaxRuleSerial + 1
                /\ configuration_rules' =
                       bulkCreateRules_Rejected(configuration_rules, req.id, req.rules,
                                                serial.configuration_rules, k)
                /\ serial' = [serial EXCEPT !.configuration_rules = @ + k]
    /\ Answer(500, <<>>)
    /\ UNCHANGED <<configurations, req, snapshot, metaobjectCalls, unchecked, observed,
                   nonAdminVars>>

\* PUT /:id: catch (error) after updateConfiguration, deleteConfigurationRules
\* or bulkCreateRules rejected
UpdateCatch ==
    /\ \/ /\ pc \in {"updateWrite", "updateDelete"}
          /\ UNCHANGED <<configuration_rules, serial>>
       \/ /\ pc = "updateCreate"
          /\ \E k \in 0..(Len(req.rules) - 1) :
                /\ serial.configuration_rules + k <= MaxRuleSerial + 1
                /\ configuration_rules' =
                       bulkCreateRules_Rejected(configuration_rules, req.id, req.rules,
                                                serial.configuration_rules, k)
                /\ serial' = [serial EXCEPT !.configuration_rules = @ + k]
    /\ Answer(500, <<>>)
    /\ UNCHANGED <<configurations, req, snapshot, metaobjectCalls, unchecked, observed,
                   nonAdminVars>>

NextAdminFaults == NextAdmin \/ CreateCatch \/ UpdateCatch

SpecAdminFaults == InitAdmin /\ [][NextAdminFaults]_vars

----------------------------------------------------------------------------
(* index.js: initializeDatabase and the middleware in front of every route.  *)
(* A step is one run of the event loop: a request reaching the middleware,   *)
(* the settling of database.initialize() with its then/catch callbacks, or   *)
(* the continuation of a request behind its await.                           *)

MaxArrivals == 4        \* most requests that reach the middleware
MaxInitFailures == 2    \* most attempts of database.initialize() that fail

\* Variant: a new attempt is started whenever the database is not initialized.
StartsAttempt_IgnoringPromise(initialized, promise) == ~initialized

\* !dbInitialized && !dbInitPromise
StartsAttempt(initialized, promise) == ~initialized /\ promise = NoPromise

Rejected == {i \in 1..Len(promises) : promises[i] = "rejected"}
Pending == {i \in 1..Len(promises) : promises[i] = "pending"}

InitInit ==
    /\ pc = "listening"
    /\ rules = <<>>
    /\ ruleTree = <<>>
    /\ product = CatalogItem(1, "X")
    /\ node = NoNode
    /\ result = FALSE
    /\ hookResult = FALSE
    /\ IdleShop
    /\ IdleRequest
    /\ IdleHook
    /\ IdleRedelivery
    /\ IdleInit
    /\ IdleAdmin

initRest == <<pc, rules, ruleTree, matcherVars, dbVars, shopVars, fetchVars, requestVars,
              hookVars, redeliveryVars, adminVars>>

\* A request reaches the middleware: initializeDatabase() runs up to its
\* return, and the request awaits the promise it returned.
Arrive ==
    /\ Len(arrivals) < MaxArrivals
    /\ IF StartsAttempt(dbInitialized, dbInitPromise)
       THEN /\ promises' = Append(promises, "pending")
            /\ dbInitPromise' = Len(promises) + 1
       ELSE UNCHANGED <<promises, dbInitPromise>>
    /\ arrivals' = Append(arrivals, [state |-> "awaiting", promise |-> dbInitPromise',
                                     during |-> Pending # {}])
    /\ UNCHANGED <<dbInitialized, initRest>>

\* database.initialize() resolves: the then callback
InitializeResolves ==
    /\ \E p \in Pending :
          /\ promises' = [promises EXCEPT ![p] = "fulfilled"]
          /\ dbInitialized' = TRUE
    /\ UNCHANGED <<dbInitPromise, arrivals, initRest>>

\* database.initialize() rejects: the catch callback, which rethrows
InitializeRejects ==
    /\ Cardinality(Rejected) < MaxInitFailures
    /\ \E p \in Pending :
          /\ promises' = [promises EXCEPT ![p] = "rejected"]
          /\ dbInitPromise' = NoPromise
    /\ UNCHANGED <<dbInitialized, arrivals, initRest>>

\* The middleware behind its await: next(), or the 500 of its catch
Continue ==
    /\ \E r \in 1..Len(arrivals) :
          /\ arrivals[r].state = "awaiting"
          /\ promises[arrivals[r].promise] # "pending"
          /\ arrivals' = [arrivals EXCEPT ![r].state =
                              IF promises[arrivals[r].promise] = "fulfilled"
                              THEN "next" ELSE "500"]
    /\ UNCHANGED <<dbInitialized, dbInitPromise, promises, initRest>>

NextInit == Arrive \/ InitializeResolves \/ InitializeRejects \/ Continue

SpecInit == InitInit /\ [][NextInit]_vars

----------------------------------------------------------------------------
(* ProductPreview.jsx and RuleNode.jsx: the rule editor.  `rules` is the     *)
(* editor's flat list; parent_id, rule_type, rule_value and rule_id stand    *)
(* for its parentId, ruleType, ruleValue and ruleId, and id n for "rule_n".  *)

MaxEditorRules == 3     \* most rules in the editor
MaxEditorId == 4        \* largest id the editor hands out

\* availableTypes of addChild and addSibling
AvailableTypes == <<"vendor", "collection", "category", "product">>

\* allTypeOptions / allTypeValues of RuleNode
AllTypeValues == <<"vendor", "collection", "category">>

InSeq(x, sq) == \E k \in 1..Len(sq) : sq[k] = x

\* Variant: the new rule is always a vendor rule.
DefaultType_Vendor(usedTypes) == "vendor"

\* availableTypes.find(t => !usedTypes.includes(t)) || "vendor"
DefaultType(usedTypes) ==
    LET free == SelectSeq(AvailableTypes, LAMBDA t : ~InSeq(t, usedTypes)) IN
    IF Len(free) > 0 THEN free[1] ELSE "vendor"

HasRule(rs, id) == \E i \in 1..Len(rs) : rs[i].id = id

\* rules.find(r => r.id === id)
FindRule(rs, id) == rs[CHOOSE i \in 1..Len(rs) : rs[i].id = id]

\* usedTypes: the types of the rule and of its ancestors, the rule's first
RECURSIVE UsedTypes(_, _)
UsedTypes(rs, id) ==
    IF ~HasRule(rs, id) THEN <<>>
    ELSE LET r == FindRule(rs, id) IN
         <<r.rule_type>> \o (IF r.parent_id # NoParent THEN UsedTypes(rs, r.parent_id) ELSE <<>>)

\* getParentTypes(nodeId)
getParentTypes(rs, id) ==
    LET r == FindRule(rs, id) IN
    IF r.parent_id # NoParent THEN UsedTypes(rs, r.parent_id) ELSE <<>>

ChildrenOf(rs, id) == SelectSeq(rs, LAMBDA r : r.parent_id = id)

getNextId(rs) ==
    IF Len(rs) = 0 THEN 1
    ELSE (CHOOSE m \in {rs[i].id : i \in 1..Len(rs)} :
              \A i \in 1..Len(rs) : rs[i].id <= m) + 1

\* Variant: the Add Product button is always shown.
hasProductNode_Never(rs) == FALSE

\* rules.some(rule => rule.ruleType === "product")
hasProductNode(rs) == \E i \in 1..Len(rs) : rs[i].rule_type = "product"

\* !hasChildren && selectedType !== "product" && allUsedTypes.length < 3
hasAvailableTypes(rs, r) ==
    /\ Len(ChildrenOf(rs, r.id)) = 0
    /\ r.rule_type # "product"
    /\ Len(getParentTypes(rs, r.id)) + 1 < Len(AllTypeValues)

\* Variant: the rules already under the parent keep their operator.
SiblingsToOr_NewOnly(rs, parentId, level) == rs

\* updatedRules.map: every rule under the parent gets operator OR
SiblingsToOr(rs, parentId, level) ==
    [i \in 1..Len(rs) |->
        IF rs[i].parent_id = parentId /\ rs[i].level = level
        THEN [rs[i] EXCEPT !.operator = "OR"]
        ELSE rs[i]]

\* getChildrenIds(ruleId), with the rule itself
RECURSIVE IdsToDelete(_, _)
IdsToDelete(rs, id) ==
    {id} \cup UNION {IdsToDelete(rs, rs[i].id) : i \in {j \in 1..Len(rs) : rs[j].parent_id = id}}

\* What the value control of a rule offers: ruleValue and ruleId
ValueOptions(type) ==
    CASE type = "vendor" -> {[value |-> "X", id |-> <<>>]}
      [] type = "collection" -> {[value |-> Col1.title, id |-> Col1.id]}
      [] type = "category" -> {[value |-> "Cat1", id |-> <<>>]}
      [] type = "product" -> {[value |-> "[]", id |-> JSONstringify(<<>>)],
                              [value |-> "[g1]", id |-> JSONstringify(<<ProductGid(1)>>)]}
      [] OTHER -> {}

editorRest == <<pc, ruleTree, matcherVars, dbVars, shopVars, fetchVars, op, cfg, matchingProducts,
                metafieldConfigs, idx, results, response, writeLog, hookVars,
                redeliveryVars, initVars, adminVars>>

InitEditor ==
    /\ pc = "editing"
    /\ rules = <<>>
    /\ ruleTree = <<>>
    /\ product = CatalogItem(1, "X")
    /\ node = NoNode
    /\ result = FALSE
    /\ hookResult = FALSE
    /\ IdleShop
    /\ IdleRequest
    /\ IdleHook
    /\ IdleRedelivery
    /\ IdleInit
    /\ IdleAdmin

CanAdd == Len(rules) < MaxEditorRules /\ getNextId(rules) <= MaxEditorId

\* addRootNode(type): the four Add buttons, Add Product shown if !hasProductNode
AddRootNode ==
    /\ CanAdd
    /\ \E type \in {"vendor", "collection", "category", "product"} :
          /\ type = "product" => ~hasProductNode(rules)
          /\ rules' = Append(rules,
                 Rule(getNextId(rules), NoParent, type, "", <<>>, "OR", 0,
                      Len(SelectSeq(rules, LAMBDA r : r.level = 0))))
    /\ UNCHANGED editorRest

\* The AND circle of a rule: onAddChild(rule.id, "AND")
AddChild ==
    /\ CanAdd
    /\ \E i \in 1..Len(rules) :
          LET parent == rules[i] IN
          /\ hasAvailableTypes(rules, parent)
          /\ rules' = Append(rules,
                 Rule(getNextId(rules), parent.id, DefaultType(UsedTypes(rules, parent.id)),
                      "", <<>>, "AND", parent.level + 1,
                      Len(ChildrenOf(rules, parent.id))))
    /\ UNCHANGED editorRest

\* The OR circle of a rule that is no root: onAddSibling(rule.parentId, "OR")
AddSibling ==
    /\ CanAdd
    /\ \E i \in 1..Len(rules) :
          /\ rules[i].parent_id # NoParent
          /\ rules[i].rule_type # "product"
          /\ HasRule(rules, rules[i].parent_id)
          /\ LET parent == FindRule(rules, rules[i].parent_id)
                 newRule == Rule(getNextId(rules), parent.id,
                                 DefaultType(UsedTypes(rules, parent.id)), "", <<>>, "OR",
                                 parent.level + 1,
                                 Len(SelectSeq(rules, LAMBDA r : r.parent_id = parent.id
                                                               /\ r.level = parent.level + 1)))
             IN rules' = SiblingsToOr(Append(rules, newRule), parent.id, parent.level + 1)
    /\ UNCHANGED editorRest

\* The type select of a rule: shown unless the rule is a product rule,
\* disabled if the rule has children, offering typeOptions
ChangeType ==
    /\ \E i \in 1..Len(rules) :
          /\ rules[i].rule_type # "product"
          /\ Len(ChildrenOf(rules, rules[i].id)) = 0
          /\ \E k \in 1..Len(AllTypeValues) :
                /\ ~InSeq(AllTypeValues[k], getParentTypes(rules, rules[i].id))
                /\ AllTypeValues[k] # rules[i].rule_type
                /\ rules' = [rules EXCEPT ![i] = [@ EXCEPT !.rule_type = AllTypeValues[k],
                                                          !.rule_value = "",
                                                          !.rule_id = <<>>]]
    /\ UNCHANGED editorRest

\* The value control of a rule: handleValueChange / handleProductsChange
ChangeValue ==
    /\ \E i \in 1..Len(rules) :
          \E o \in ValueOptions(rules[i].rule_type) :
              /\ [value |-> rules[i].rule_value, id |-> rules[i].rule_id] # o
              /\ rules' = [rules EXCEPT ![i] = [@ EXCEPT !.rule_value = o.value,
                                                        !.rule_id = o.id]]
    /\ UNCHANGED editorRest

\* The delete button of a rule: deleteRule(rule.id)
DeleteRule ==
    /\ \E i \in 1..Len(rules) :
          rules' = SelectSeq(rules, LAMBDA r : r.id \notin IdsToDelete(rules, rules[i].id))
    /\ UNCHANGED editorRest

NextEditor ==
    AddRootNode \/ AddChild \/ AddSibling \/ ChangeType \/ ChangeValue \/ DeleteRule

SpecEditor == InitEditor /\ [][NextEditor]_vars

----------------------------------------------------------------------------
(* A rule list previewed, then saved, then matched from the tables.  The     *)
(* parent_id of a request's rule stands for the parentId the editor sends.   *)

MaxPersistRules == 2

\* An id no rule of the list has
DanglingId == 9

\* Rule i of a list has id i; its parent is absent, any other rule of the
\* list, or no rule of the list, and its level is whatever the request says.
PersistRules ==
    [i \in 1..MaxPersistRules |->
        {Rule(i, p, l[1], l[2], <<>>, o, level, 0) :
            p \in ({NoParent, DanglingId} \cup (1..MaxPersistRules)) \ {i},
            l \in TreeLeaves, o \in {"AND", "OR"}, level \in 0..1}]

PersistRuleLists ==
    UNION {{rs \in [1..n -> UNION {PersistRules[i] : i \in 1..MaxPersistRules}] :
               \A i \in 1..n : rs[i] \in PersistRules[i] /\ rs[i].parent_id \in 0..n \cup {DanglingId}}
           : n \in 0..MaxPersistRules}

PersistCatalog ==
    <<CatalogItem(1, "X"), CatalogItem(2, "X"), CatalogItem(3, "Y"), CatalogItem(4, "Y")>>

InitPersist ==
    /\ pc = "start"
    /\ rules \in PersistRuleLists
    /\ catalog = PersistCatalog
    /\ metafields = InitialMetafields(catalog)
    /\ configurations = <<>>
    /\ configuration_rules = <<>>
    /\ product = CatalogItem(1, "X")
    /\ ruleTree = <<>>
    /\ node = NoNode
    /\ result = FALSE
    /\ hookResult = FALSE
    /\ IdleRequest
    /\ IdleHook
    /\ IdleRedelivery
    /\ IdleInit
    /\ IdleAdmin

\* POST /preview: previewMatchingProducts(client, rules)
PreviewRules ==
    /\ pc = "start"
    /\ op' = "preview"
    /\ ruleTree' = buildRuleTree(rules)
    /\ allProducts' = [i \in 1..Len(catalog) |-> GraphqlNode(catalog[i])]
    /\ matchingProducts' = FilterMatching(allProducts', ruleTree')
    /\ pc' = "previewed"
    /\ UNCHANGED <<rules, matcherVars, dbVars, shopVars, cursor, hasNextPage, cfg,
                   metafieldConfigs, idx, results, response, writeLog, hookVars,
                   redeliveryVars, initVars, adminVars>>

\* POST /: createConfiguration and bulkCreateRules with the same rules
SaveRules ==
    /\ pc = "previewed"
    /\ configurations' = createConfiguration(configurations, serial.configurations, "s1",
                                             determineConfigurationType(rules),
                                             <<ScalarField("warranty", Text2y)>>, 0)
    /\ configuration_rules' =
           IF Len(rules) > 0
           THEN bulkCreateRules(configuration_rules, serial.configurations, rules,
                                serial.configuration_rules)
           ELSE configuration_rules
    /\ cfg' = getConfigurationById(configurations', serial.configurations)
    /\ serial' = [configurations |-> serial.configurations + 1,
                  configuration_rules |-> serial.configuration_rules + Len(rules)]
    /\ pc' = "saved"
    /\ UNCHANGED <<rules, ruleTree, matcherVars, shopVars, fetchVars, op, matchingProducts,
                   metafieldConfigs, idx, results, response, writeLog, hookVars,
                   redeliveryVars, initVars, req, reply, snapshot, metaobjectCalls, unchecked,
                   observed>>

\* GET /:id/preview: findMatchingProducts(client, id) and the answer
MatchSaved ==
    /\ pc = "saved"
    /\ op' = "saved"
    /\ ruleTree' = buildRuleTree(getConfigurationRules(configuration_rules, cfg.id))
    /\ LET found == FilterMatching(allProducts, ruleTree') IN
       response' = [status |-> 200, count |-> Len(found),
                    products |-> SubSeq(found, 1, Min(PreviewLimit, Len(found)))]
    /\ pc' = "compared"
    /\ UNCHANGED <<rules, matcherVars, dbVars, shopVars, fetchVars, cfg, matchingProducts,
                   metafieldConfigs, idx, results, writeLog, hookVars, redeliveryVars, initVars,
                   adminVars>>

NextPersist == PreviewRules \/ SaveRules \/ MatchSaved

SpecPersist == InitPersist /\ [][NextPersist]_vars

----------------------------------------------------------------------------
(* determineConfigurationType on the rule lists a request may carry *)

MaxTypeRules == 3

Kinds == {"vendor", "category", "collection", "product"}

\* A rule as the editor sends it (ruleType) or as the table returns it
\* (rule_type)
TypeRule(n, parent, kind, camel, level) ==
    Rule(n, parent, IF camel THEN "" ELSE kind, "v", <<>>, "OR", level, 0)
        @@ [ruleType |-> IF camel THEN kind ELSE ""]

RECURSIVE TypeRuleLists(_)
TypeRuleLists(n) ==
    IF n = 0 THEN {<<>>}
    ELSE LET shorter == TypeRuleLists(n - 1) IN
         shorter \cup
         {Append(rs, TypeRule(n, p, k, camel, LevelOf(rs, p))) :
            rs \in {x \in shorter : Len(x) = n - 1}, p \in {0, n - 1},
            k \in Kinds, camel \in BOOLEAN}

InitType ==
    /\ pc = "start"
    /\ rules \in TypeRuleLists(MaxTypeRules)
    /\ product = CatalogItem(1, "X")
    /\ ruleTree = <<>>
    /\ node = NoNode
    /\ result = ""
    /\ hookResult = FALSE
    /\ IdleShop
    /\ IdleRequest
    /\ IdleHook
    /\ IdleRedelivery
    /\ IdleInit
    /\ IdleAdmin

\* const type = determineConfigurationType(rules || [])
DetermineType ==
    /\ pc = "start"
    /\ result' = determineConfigurationType(rules)
    /\ pc' = "typed"
    /\ UNCHANGED <<rules, ruleTree, product, node, hookResult, dbVars, shopVars, fetchVars,
                   requestVars, hookVars, redeliveryVars, initVars, adminVars>>

NextType == DetermineType

SpecType == InitType /\ [][NextType]_vars

----------------------------------------------------------------------------
(* Properties of the matcher *)

RootRules == {rules[i] : i \in {j \in 1..Len(rules) : rules[j].parent_id = NoParent}}

\* C1: evaluateRuleTree is true for an empty root list and otherwise true iff
\* evaluateRuleNode is true for at least one root, whatever operator the roots
\* store; an item failing the leaf predicate of every root fails the tree.
C1_RootsAreOred ==
    pc = "tree" =>
        /\ result = (Len(ruleTree) = 0
                     \/ \E k \in 1..Len(ruleTree) :
                            evaluateRuleNode(GraphqlNode(product), ruleTree[k]))
        /\ (Len(rules) = 0 => result)
        /\ (/\ RootRules # {}
            /\ \A r \in RootRules : ~matchesRule(GraphqlNode(product), r)) => ~result
        /\ (\E k \in 1..Len(ruleTree) :
                /\ Len(ruleTree[k].children) = 0
                /\ matchesRule(GraphqlNode(product), ruleTree[k].rule)) => result

\* C1 witness: two roots stored with operator AND, the item matches one and
\* fails the other, and the tree matches.
C1_Witness ==
    /\ pc = "tree"
    /\ Len(ruleTree) = 2
    /\ ruleTree[1].rule.operator = "AND"
    /\ ruleTree[2].rule.operator = "AND"
    /\ evaluateRuleNode(GraphqlNode(product), ruleTree[1])
    /\ ~evaluateRuleNode(GraphqlNode(product), ruleTree[2])
    /\ result

ChildResults(prod, n) ==
    {evaluateRuleNode(prod, n.children[k]) : k \in 1..Len(n.children)}

\* C2: evaluateRuleNode is false when the leaf predicate fails on the node;
\* otherwise true for a childless node, 'every child' when the first child's
\* operator is AND and 'some child' otherwise.  A node with two childless AND
\* children matches exactly the items satisfying the node and both children.
C2_NodeSemantics ==
    pc = "node" =>
        LET prod == GraphqlNode(product) IN
        /\ ~matchesRule(prod, node.rule) => ~result
        /\ (matchesRule(prod, node.rule) /\ Len(node.children) = 0) => result
        /\ (/\ matchesRule(prod, node.rule)
            /\ Len(node.children) > 0
            /\ node.children[1].rule.operator = "AND")
               => result = (ChildResults(prod, node) = {TRUE})
        /\ (/\ matchesRule(prod, node.rule)
            /\ Len(node.children) > 0
            /\ node.children[1].rule.operator # "AND")
               => result = (TRUE \in ChildResults(prod, node))
        /\ (/\ Len(node.children) = 2
            /\ \A k \in 1..2 : /\ node.children[k].rule.operator = "AND"
                               /\ Len(node.children[k].children) = 0)
               => result = (/\ matchesRule(prod, node.rule)
                            /\ matchesRule(prod, node.children[1].rule)
                            /\ matchesRule(prod, node.children[2].rule))

\* C2 witness: a node with two AND children of which the item satisfies the
\* node and only one child, so that the node evaluates to false.
C2_Witness ==
    /\ pc = "node"
    /\ Len(node.children) = 2
    /\ node.children[1].rule.operator = "AND"
    /\ node.children[2].rule.operator = "AND"
    /\ matchesRule(GraphqlNode(product), node.rule)
    /\ matchesRule(GraphqlNode(product), node.children[1].rule)
    /\ ~matchesRule(GraphqlNode(product), node.children[2].rule)
    /\ ~result

\* Lists of product ids as the authoring tool's multiselect stores them.
ProductIdLists ==
    {<<>>, <<ProductGid(1)>>, <<ProductGid(2)>>, <<ProductGid(1), ProductGid(2)>>}

\* C10: a product rule whose rule_id is a JSON list of ids matches iff the
\* item's id is in the list; an unparseable rule_id matches iff it equals the
\* item's id; a product rule without rule_id never matches.
C10_ProductRule ==
    (pc = "leaf" /\ node.rule.rule_type = "product") =>
        LET ref == node.rule.rule_id
            gid == GraphqlNode(product).id
        IN  /\ ref = <<>> => ~result
            /\ \A ids \in ProductIdLists :
                  ref = JSONstringify(ids)
                     => result = (\E k \in 1..Len(ids) : ids[k] = gid)
            /\ (ref # <<>> /\ ~JSONparse(ref).ok) => result = (gid = ref)

\* C10 witness: the item's id is the second member of a two-id list.
C10_Witness ==
    /\ pc = "leaf"
    /\ node.rule.rule_type = "product"
    /\ node.rule.rule_id = JSONstringify(<<ProductGid(1), ProductGid(2)>>)
    /\ product.id = 2
    /\ result

\* The evaluator with every collection rule treated as non-matching.
RECURSIVE EvalNodeNoCollection(_, _)
EvalNodeNoCollection(prod, n) ==
    IF n.rule.rule_type = "collection" \/ ~matchesRule(prod, n.rule) THEN FALSE
    ELSE IF Len(n.children) = 0 THEN TRUE
    ELSE IF n.children[1].rule.operator = "AND"
    THEN \A k \in 1..Len(n.children) : EvalNodeNoCollection(prod, n.children[k])
    ELSE \E k \in 1..Len(n.children) : EvalNodeNoCollection(prod, n.children[k])

\* C7: the matcher of the webhook handlers agrees with evaluateRuleTree /
\* matchesRule on the same item and rules, collection rules counting as
\* non-matching.
C7_HookAgreesWithEvaluator ==
    pc = "hook" =>
        hookResult = (Len(ruleTree) = 0
                      \/ \E k \in 1..Len(ruleTree) :
                             EvalNodeNoCollection(GraphqlNode(product), ruleTree[k]))

----------------------------------------------------------------------------
(* Properties of the apply and preview routes *)

Ids(seq) == [k \in 1..Len(seq) |-> seq[k].productId]

FailedWrites == SelectSeq(writeLog, LAMBDA w : ~w.ok)
SuccessfulWrites == SelectSeq(writeLog, LAMBDA w : w.ok)

\* C3: applying to N matching items attempts every item once, in list order;
\* a failed write is recorded with the item's id and does not stop the later
\* items; at the answer total = N, successful + failed = total, and errors
\* holds one entry per failed item and none for a successful one.
C3_PartialFailureIsolation ==
    /\ (op = "apply" /\ pc = "loop") =>
          /\ Len(writeLog) = idx - 1
          /\ results.successful + results.failed = idx - 1
    /\ (op = "apply" /\ pc = "done" /\ response.status = 200) =>
          /\ results.total = Len(matchingProducts)
          /\ Ids(writeLog) = [k \in 1..Len(matchingProducts) |-> matchingProducts[k].id]
          /\ results.successful + results.failed = results.total
          /\ results.failed = Len(FailedWrites)
          /\ results.successful = Len(SuccessfulWrites)
          /\ Ids(results.errors) = Ids(FailedWrites)

\* C3 witness: three items, the write of the second fails.
C3_Witness ==
    /\ op = "apply" /\ pc = "done" /\ response.status = 200
    /\ results.total = 3 /\ results.successful = 2 /\ results.failed = 1
    /\ Len(writeLog) = 3
    /\ writeLog[1].ok /\ ~writeLog[2].ok /\ writeLog[3].ok
    /\ Ids(results.errors) = <<matchingProducts[2].id>>

\* Whether the rule tree of the loaded configuration matches catalog item i.
CfgMatches(i) ==
    evaluateRuleTree(GraphqlNode(catalog[i]),
                     buildRuleTree(getConfigurationRules(configuration_rules, cfg.id)))

WritesTo(i) == {k \in 1..Len(writeLog) : writeLog[k].productId = ProductGid(catalog[i].id)}

\* C8: apply writes to exactly the items the configuration's rule tree
\* matches: an item that does not match receives no write and keeps its
\* values; when the route answers with results every matching item was
\* written once, and a written item carries the configuration's values.
C8_ApplyWritesExactlyMatches ==
    op = "apply" =>
        \A i \in 1..Len(catalog) :
            /\ ~CfgMatches(i) =>
                  /\ WritesTo(i) = {}
                  /\ metafields[i] = InitialMetafields(catalog)[i]
            /\ (CfgMatches(i) /\ pc = "done" /\ response.status = 200) =>
                  /\ Cardinality(WritesTo(i)) = 1
                  /\ \A k \in WritesTo(i) : writeLog[k].ok =>
                        \A j \in 1..Len(cfg.metafield_configs) :
                            LET c == cfg.metafield_configs[j] IN
                            (c.type # "metaobject_reference" /\ ~EmptyValue(c.value))
                               => metafields[i][<<c.namespace, c.key>>] = c.value.text

\* C8 witness: rule vendor = X, field custom.warranty = "2 years", catalog
\* [vendor X, vendor Y]: item 1 carries the value, item 2 is untouched.
C8_Witness ==
    /\ op = "apply" /\ pc = "done" /\ response.status = 200
    /\ Len(catalog) = 2
    /\ CfgMatches(1) /\ ~CfgMatches(2)
    /\ metafields[1][<<"custom", "warranty">>] = Text2y
    /\ metafields[2] = InitialMetafields(catalog)[2]
    /\ Len(writeLog) = 1

CatalogNodes == [k \in 1..Len(catalog) |-> GraphqlNode(catalog[k])]

\* C9: the catalog is fetched page by page until the source reports no next
\* page, and the result is exactly the items the rule tree matches, each
\* once, in the order of the source.
C9_FetchAllThenFilter ==
    /\ pc = "fetch" =>
          /\ Len(allProducts) <= Len(catalog)
          /\ allProducts = SubSeq(CatalogNodes, 1, Len(allProducts))
          /\ (~hasNextPage => allProducts = CatalogNodes)
    /\ (pc \in {"process", "loop"} \/ (pc = "done" /\ response.status = 200)) =>
          /\ allProducts = CatalogNodes
          /\ matchingProducts =
                SelectSeq(CatalogNodes,
                          LAMBDA p : evaluateRuleTree(p, buildRuleTree(rules)))

\* C9 witness: a preview over a catalog of more than one page whose result
\* skips an item of the first page and holds items of two pages.
C9_Witness ==
    /\ pc = "done" /\ op = "preview" /\ response.status = 200
    /\ Len(catalog) > PageSize
    /\ Len(matchingProducts) = 2
    /\ matchingProducts[1] = GraphqlNode(catalog[2])
    /\ matchingProducts[2] = GraphqlNode(catalog[Len(catalog)])

----------------------------------------------------------------------------
(* Properties of the product webhook handlers *)

HookCompleted == pc = "hookDone" /\ hookExit.cause = "completed"

TenantConfigs == {c \in Rows(configurations) : c.shop = shop}

\* The rule tree of configuration `id`, evaluated as the matcher module does
TreeMatches(id) ==
    evaluateRuleTree(GraphqlNode(product),
                     buildRuleTree(getConfigurationRules(configuration_rules, id)))

\* The handler's own predicate for configuration `id`
HookMatches(id) ==
    productMatchesRules(WebhookPayload(product),
                        getConfigurationRules(configuration_rules, id))

LoggedInPriorityOrder ==
    /\ Len(hookLog) = Cardinality(TenantConfigs)
    /\ {hookLog[i].config : i \in 1..Len(hookLog)} = {c.id : c \in TenantConfigs}
    /\ \A i, j \in 1..Len(hookLog) : i < j => hookLog[i].priority >= hookLog[j].priority

\* C4: when the handler has gone through its loop, it has processed exactly
\* the configurations of the event's tenant, one after another in descending
\* priority, and every configuration whose rule tree matches the item was
\* taken into application (none was passed over).
C4_EveryMatchAppliedInPriorityOrder ==
    HookCompleted =>
        /\ LoggedInPriorityOrder
        /\ \A i \in 1..Len(hookLog) :
              TreeMatches(hookLog[i].config) => hookLog[i].outcome # "skipped"

\* The same with the handler's own predicate in the place of the rule tree's
\* evaluation: what the loop does with the configurations it does match.
HookAppliesEveryOwnMatch ==
    HookCompleted =>
        /\ LoggedInPriorityOrder
        /\ \A i \in 1..Len(hookLog) :
              /\ hookLog[i].matched = HookMatches(hookLog[i].config)
              /\ hookLog[i].matched => hookLog[i].outcome # "skipped"

HookTwoApplied ==
    /\ HookCompleted
    /\ Len(hookLog) = 2
    /\ hookLog[1].outcome = "applied" /\ hookLog[2].outcome = "applied"
    /\ hookLog[1].priority > hookLog[2].priority

Assigns(input, k) == \E n \in 1..Len(input) : <<input[n].namespace, input[n].key>> = k

ValueIn(input, k) ==
    LET last == CHOOSE n \in 1..Len(input) :
                    /\ <<input[n].namespace, input[n].key>> = k
                    /\ \A m \in (n + 1)..Len(input) : <<input[m].namespace, input[m].key>> # k
    IN input[last].value

\* C5: when two configurations were both applied to the event's item and both
\* wrote a value under the same namespace.key, the item carries, once the
\* handler has finished, the value of the one applied last (no later
\* configuration writing that key), and that one does not have the higher
\* priority of the two: the lower-priority configuration overwrites.
C5_LowerPriorityOverwrites ==
    HookCompleted =>
        \A i, j \in 1..Len(hookLog) : \A k \in Keys :
            (/\ i < j
             /\ hookLog[i].outcome = "applied" /\ hookLog[j].outcome = "applied"
             /\ Assigns(hookLog[i].input, k) /\ Assigns(hookLog[j].input, k)
             /\ \A m \in (j + 1)..Len(hookLog) :
                   ~(hookLog[m].outcome = "applied" /\ Assigns(hookLog[m].input, k)))
            => /\ metafields[product.id][k] = ValueIn(hookLog[j].input, k)
               /\ hookLog[j].priority <= hookLog[i].priority

C5_Witness ==
    /\ HookTwoApplied
    /\ Assigns(hookLog[1].input, <<"custom", "warranty">>)
    /\ Assigns(hookLog[2].input, <<"custom", "warranty">>)
    /\ ValueIn(hookLog[1].input, <<"custom", "warranty">>) = Text2y
    /\ ValueIn(hookLog[2].input, <<"custom", "warranty">>) = Text5y
    /\ metafields[product.id][<<"custom", "warranty">>] = Text5y

ApplyFailures == {"resolveFailed", "writeFailed"}

\* C6: the handler never throws to its caller, whatever went wrong (payload,
\* session, store); a failure while resolving or writing the fields of one
\* matching configuration never ends the handler: the loop goes on with the
\* next configuration, and when the loop is over every configuration after
\* the failed one was evaluated and, if it matched, taken into application.
C6_HandlerSwallowsAndContinues ==
    /\ hookExit.how # "threw"
    /\ pc = "hookDone" => hookExit.how = "returned"
    /\ hookExit.cause \notin ApplyFailures
    /\ pc = "hookRules" => Len(hookLog) = idx - 1
    /\ HookCompleted =>
          /\ Len(hookLog) = Len(hookConfigurations)
          /\ \A i \in 1..Len(hookLog) :
                /\ hookLog[i].config = hookConfigurations[i].id
                /\ hookLog[i].matched = HookMatches(hookLog[i].config)
                /\ hookLog[i].matched => hookLog[i].outcome \in ApplyFailures \cup {"applied"}

C6_Witness ==
    /\ HookCompleted
    /\ Len(hookLog) = 2
    /\ hookLog[1].outcome \in ApplyFailures
    /\ hookLog[2].outcome = "applied"
    /\ metafields[product.id] # InitialMetafields(catalog)[product.id]

----------------------------------------------------------------------------
(* Properties of the collection rule *)

CollectionIdLists == {<<>>, <<(<<"k1">>)>>, <<(<<"k2">>)>>, <<(<<"k1">>), <<"k2">>>>}

InCollection(prod, cid) == \E k \in 1..Len(prod.collections) : prod.collections[k].id = cid

\* C11: a collection rule whose rule_id is a JSON list of collection ids
\* matches iff the item is in one of the listed collections; with a single id
\* it matches iff the item is in that collection; without rule_id it matches
\* iff one of the item's collection titles equals rule_value.
C11_CollectionRule ==
    (pc = "leaf" /\ node.rule.rule_type = "collection") =>
        LET ref == node.rule.rule_id
            prod == GraphqlNode(product)
        IN  /\ \A ids \in CollectionIdLists :
                  ref = JSONstringify(ids)
                     => result = (\E k \in 1..Len(ids) : InCollection(prod, ids[k]))
            /\ (ref # <<>> /\ ~JSONparse(ref).ok) => result = InCollection(prod, ref)
            /\ ref = <<>> =>
                  result = (\E k \in 1..Len(prod.collections) :
                                prod.collections[k].title = node.rule.rule_value)

\* What matchesRule does hold to: the rule_id is compared as it is stored.
CollectionRuleComparesRawId ==
    (pc = "leaf" /\ node.rule.rule_type = "collection") =>
        LET ref == node.rule.rule_id
            prod == GraphqlNode(product)
        IN  /\ ref # <<>> => result = InCollection(prod, ref)
            /\ ref = <<>> =>
                  result = (\E k \in 1..Len(prod.collections) :
                                prod.collections[k].title = node.rule.rule_value)

----------------------------------------------------------------------------
(* Properties of the resolution of metaobject references *)

\* The apply request ended because processMetafieldConfigs threw: the catalog
\* was fetched to its end and the answer is 500.  createMetaobject throws
\* `Required field ... is missing` for a required nested field without value,
\* and processMetafieldConfigs rethrows it.
ResolveFailed ==
    pc = "done" /\ op = "apply" /\ response.status = 500 /\ ~hasNextPage

OtherFieldSpecs ==
    {k \in 1..Len(cfg.metafield_configs) :
        /\ cfg.metafield_configs[k].type # "metaobject_reference"
        /\ ~EmptyValue(cfg.metafield_configs[k].value)}

\* C15: when the resolution of a metaobject reference fails, only that field
\* is left out: the other field specs of the configuration are still written
\* to every matching item.
C15_ResolveFailureAbortsOneField ==
    ResolveFailed =>
        \A i \in 1..Len(matchingProducts) : \A k \in OtherFieldSpecs :
            LET f == cfg.metafield_configs[k] IN
            metafields[ItemOf(matchingProducts[i].id)][<<f.namespace, f.key>>]
                = StringOf(f.value)

\* What the route does instead: nothing at all is written.
ResolveFailureWritesNothing ==
    ResolveFailed => (writeLog = <<>> /\ metafields = InitialMetafields(catalog))

----------------------------------------------------------------------------
(* Properties of the configuration routes *)

StoredRules(id) == getConfigurationRules(configuration_rules, id)

\* C12: once the requests made so far (create, update, duplicate, delete,
\* priorities) have completed, the stored type of every configuration is the
\* type determineConfigurationType gives for the rules stored for it.
C12_StoredTypeFollowsStoredRules ==
    AtRest => \A c \in Rows(configurations) :
                 c.type = determineConfigurationType(StoredRules(c.id))

DeleteAnswered == pc = "adminDone" /\ req.kind = "delete" /\ reply.status = 200

\* C13: deleting a configuration removes that configuration and the rules
\* stored for it, and no other row of either table.
C13_DeleteRemovesOnlyItsOwnRows ==
    DeleteAnswered =>
        /\ Rows(configurations) = {c \in Rows(snapshot.configurations) : c.id # req.id}
        /\ Rows(configuration_rules) =
               {r \in Rows(snapshot.configuration_rules) : r.configuration_id # req.id}

\* What the delete does hold to: the configuration and its own rules are gone,
\* and every other configuration row is kept.
DeleteRemovesItsOwnRows ==
    DeleteAnswered =>
        /\ Rows(configurations) = {c \in Rows(snapshot.configurations) : c.id # req.id}
        /\ Rows(configuration_rules) \subseteq
               {r \in Rows(snapshot.configuration_rules) : r.configuration_id # req.id}

----------------------------------------------------------------------------
(* Properties of a repeated delivery *)

\* What a run did: for each configuration its outcome and the fields it sent
Outcomes(log) ==
    [i \in 1..Len(log) |->
        [config |-> log[i].config, outcome |-> log[i].outcome,
         sent |-> [j \in 1..Len(log[i].input) |->
                     <<log[i].input[j].namespace, log[i].input[j].key>>]]]

\* The event was delivered twice and both runs of the handler went through
\* all configurations, with the same outcome and the same fields sent for each.
RedeliveredAlike ==
    /\ HookCompleted
    /\ deliveries = 1
    /\ Outcomes(hookLog) = Outcomes(firstRun.log)

\* C14: applying the same field specs to the same item twice leaves the item
\* with the field values one application gives; hence, when the handler is run
\* again for the same event against unchanged configurations, the item's
\* fields are as they were after the first run.
C14_RedeliveryLeavesFieldsAlone ==
    /\ \A i \in 1..Len(hookLog) :
           hookLog[i].outcome = "applied" =>
               ProductUpdate(ProductUpdate(metafields[product.id], hookLog[i].input),
                             hookLog[i].input)
                   = ProductUpdate(metafields[product.id], hookLog[i].input)
    /\ RedeliveredAlike => metafields[product.id] = firstRun.fields

\* What does hold: a second run that applies the same configurations leaves
\* every field alone that no configuration resolved anew.
RedeliveryKeepsResolvedFields ==
    RedeliveredAlike =>
        \A k \in Keys :
            \/ metafields[product.id][k] = firstRun.fields[k]
            \/ \E i \in 1..Len(hookLog) : \E j \in 1..Len(hookLog[i].input) :
                   LET f == hookLog[i].input[j] IN
                   /\ <<f.namespace, f.key>> = k
                   /\ f.type = "metaobject_reference"
                   /\ f.value = metafields[product.id][k]

----------------------------------------------------------------------------
(* Properties of the answers of the configuration routes *)

\* The ids of configurations the request names
NamedIds ==
    IF req.kind = "priorities"
    THEN {req.priorities[k].id : k \in 1..Len(req.priorities)}
    ELSE IF req.kind \in {"get", "update", "delete", "duplicate"} THEN {req.id}
    ELSE {}

NamesUnknownId ==
    \E id \in NamedIds : getConfigurationById(snapshot.configurations, id) = NoConfig

\* Nothing was written since the request began
NothingWritten ==
    /\ configurations = snapshot.configurations
    /\ configuration_rules = snapshot.configuration_rules
    /\ metaobjectCalls = snapshot.metaobjectCalls
    /\ Len(writeLog) = snapshot.writes

\* C16: an operation that takes a configuration id (get, update, delete,
\* duplicate, priority update) and is given an id no stored configuration has
\* answers not-found and changes nothing: no configuration or rule row is
\* created, changed or deleted, no metaobject call and no catalog write is made.
C16_UnknownIdIsNotFound ==
    (pc = "adminDone" /\ NamesUnknownId) => (reply.status = 404 /\ NothingWritten)

\* What does hold: the routes with the id in their path answer 404 and write
\* nothing.
UnknownPathIdIsNotFound ==
    (pc = "adminDone" /\ NamesUnknownId /\ req.kind # "priorities")
        => (reply.status = 404 /\ NothingWritten)

CreateWithoutFieldSpecs ==
    /\ pc = "adminDone"
    /\ req.kind = "create"
    /\ (~req.fields.present \/ Len(req.fields.list) = 0)

\* C17: a create request whose list of field specs is absent or empty is
\* answered with a validation error (400) and writes nothing: no
\* configuration row, no rule row, no metaobject create or update.
C17_CreateWithoutFieldSpecsRejected ==
    CreateWithoutFieldSpecs => (reply.status = 400 /\ NothingWritten)

C17_Witness ==
    /\ CreateWithoutFieldSpecs
    /\ req.fields.present
    /\ req.rules # <<>>
    /\ reply.status = 400
    /\ configurations # <<>>
    /\ NothingWritten

----------------------------------------------------------------------------
(* Properties of determineConfigurationType *)

TypeLabels == {"vendor", "category", "collection", "product", "combined"}

\* The kind a rule of the list carries, under either spelling of the key
KindAt(i) == IF rules[i].rule_type = "" THEN rules[i].ruleType ELSE rules[i].rule_type

\* C18: determineConfigurationType gives 'combined' for an empty list, the
\* common kind when all rules of the list, roots and descendants alike, have
\* the same kind, and 'combined' when two rules differ in kind; the result is
\* one of vendor, category, collection, product, combined.
C18_TypeOfRuleList ==
    pc = "typed" =>
        /\ result \in TypeLabels
        /\ Len(rules) = 0 => result = "combined"
        /\ \A k \in Kinds :
               (Len(rules) > 0 /\ \A i \in 1..Len(rules) : KindAt(i) = k) => result = k
        /\ (\E i, j \in 1..Len(rules) : KindAt(i) # KindAt(j)) => result = "combined"

C18_Witness ==
    /\ pc = "typed"
    /\ Len(rules) = MaxTypeRules
    /\ rules[1].parent_id = NoParent
    /\ rules[2].parent_id = 1
    /\ KindAt(1) = "vendor"
    /\ KindAt(2) = "category"
    /\ result = "combined"

----------------------------------------------------------------------------
(* Properties of the storefront answer *)

StorefrontAnswered == pc = "adminDone" /\ req.kind = "storefront"

\* The stored configurations that have a field spec for the entry's key
SourcesOf(entry) ==
    {c \in Rows(configurations) :
        \E k \in 1..Len(c.metafield_configs) :
            /\ c.metafield_configs[k].namespace = entry.namespace
            /\ c.metafield_configs[k].key = entry.key}

\* C19: once a configuration has been saved with 'Show on storefront'
\* unchecked, the storefront answer for a product it matches has none of its
\* metafields: every entry of the answer comes from a configuration that was
\* not saved that way.
C19_UncheckedIsNotShown ==
    StorefrontAnswered =>
        \A k \in 1..Len(reply.body) :
            \E c \in SourcesOf(reply.body[k]) : c.id \notin unchecked

\* What the answer does hold to: every entry comes from a field spec with a
\* display type, of a stored configuration of the shop.
StorefrontShowsDisplayTyped ==
    StorefrontAnswered =>
        \A k \in 1..Len(reply.body) :
            /\ reply.body[k].displayType # ""
            /\ \E c \in SourcesOf(reply.body[k]) : c.shop = "s1"

----------------------------------------------------------------------------
(* Properties of the update's rule replacement *)

\* PUT /:id has deleted the old rules and not yet inserted the new ones
BetweenDeleteAndInsert == pc = "updateCreate"

\* C20: the update is not atomic: between the deletion of the old rules and
\* the insertion of the new ones the configuration exists with zero rules,
\* and evaluated in that state, by the event handler or by preview and apply,
\* it matches every item.
C20_RulelessBetweenDeleteAndInsert ==
    BetweenDeleteAndInsert =>
        /\ getConfigurationById(configurations, req.id) # NoConfig
        /\ StoredRules(req.id) = <<>>
        /\ \A i \in 1..Len(catalog) :
               /\ productMatchesRules(WebhookPayload(catalog[i]), StoredRules(req.id))
               /\ evaluateRuleTree(GraphqlNode(catalog[i]),
                                   buildRuleTree(StoredRules(req.id)))

\* An event handled in that window matched the item to a configuration whose
\* rules before the update and rules after it both exclude the item.
C20_Witness ==
    /\ BetweenDeleteAndInsert
    /\ observed = [config |-> req.id, rules |-> 0, matches |-> TRUE]
    /\ LET before == getConfigurationRules(snapshot.configuration_rules, req.id) IN
       /\ before # <<>>
       /\ ~productMatchesRules(WebhookPayload(product), before)
    /\ req.rules # <<>>
    /\ ~productMatchesRules(WebhookPayload(product), req.rules)

----------------------------------------------------------------------------
(* Properties of the duplicate *)

DuplicateAnswered == pc = "adminDone" /\ req.kind = "duplicate" /\ reply.status = 201

\* The rule tree stored for configuration `id`, evaluated on an item
StoredTreeMatches(id, item) ==
    evaluateRuleTree(GraphqlNode(item), buildRuleTree(StoredRules(id)))

\* C21: after a configuration is duplicated, every child rule of the copy has
\* as parent a rule of the copy, and the copy matches exactly the items the
\* original matches.
C21_DuplicateMatchesLikeOriginal ==
    DuplicateAnswered =>
        LET copy == reply.body[1].id IN
        /\ \A k \in 1..Len(StoredRules(copy)) :
               LET r == StoredRules(copy)[k] IN
               \/ r.parent_id = NoParent
               \/ \E j \in 1..Len(StoredRules(copy)) : StoredRules(copy)[j].id = r.parent_id
        /\ \A item \in Items : StoredTreeMatches(copy, item) = StoredTreeMatches(req.id, item)

\* What the duplicate does hold to: the copy has the original's rules in the
\* same order with the same kind, value, operator, level, position and
\* parent_id, under new ids.
DuplicateCopiesRuleColumns ==
    DuplicateAnswered =>
        LET copy == StoredRules(reply.body[1].id)
            orig == StoredRules(req.id)
        IN /\ Len(copy) = Len(orig)
           /\ \A k \in 1..Len(copy) :
                  /\ copy[k].id # orig[k].id
                  /\ [copy[k] EXCEPT !.id = 0, !.configuration_id = 0]
                        = [orig[k] EXCEPT !.id = 0, !.configuration_id = 0]

----------------------------------------------------------------------------
(* Properties of failed create and update requests *)

WriteAnsweredWithError ==
    pc = "adminDone" /\ req.kind \in {"create", "update"} /\ reply.status >= 400

\* C22: when a create or an update request is answered with an error, the two
\* tables are as they were before the request: a failed create leaves no
\* configuration row, a failed update leaves the configuration's type, field
\* specs and rules as they were.
C22_FailedWriteLeavesTablesAlone ==
    WriteAnsweredWithError =>
        /\ configurations = snapshot.configurations
        /\ configuration_rules = snapshot.configuration_rules

\* What does hold: the errors answered before the first statement of the
\* database (validation, not found, a failed reference resolution) leave the
\* tables alone.
EarlyErrorLeavesTablesAlone ==
    (WriteAnsweredWithError /\ req.id \notin {c.id : c \in Rows(configurations)})
        => /\ configurations = snapshot.configurations
           /\ configuration_rules = snapshot.configuration_rules

----------------------------------------------------------------------------
(* Properties of a saved rule list *)

\* C23: the preview of a rule list and the matches of the configuration saved
\* from that list select the same items of the same catalog, also when a rule
\* names a parent that is not in the list or has a level that does not exceed
\* its parent's.
C23_SavedMatchesLikePreview ==
    pc = "compared" => response.products = matchingProducts

\* Every rule with a parent names a rule earlier in the list, one level up
ParentsPrecede ==
    \A i \in 1..Len(rules) :
        rules[i].parent_id # NoParent =>
            /\ rules[i].parent_id \in 1..(i - 1)
            /\ rules[i].level = rules[rules[i].parent_id].level + 1

\* What does hold: a list in which every parent precedes its children, one
\* level up, is matched from the tables as it is previewed.
WellFormedSavedMatchesLikePreview ==
    (pc = "compared" /\ ParentsPrecede) => response.products = matchingProducts

----------------------------------------------------------------------------
(* Properties of the tree built from a list with dangling parents *)

\* The rule's parent is not in the list
Dangling(rs, r) ==
    r.parent_id # NoParent /\ \A i \in 1..Len(rs) : rs[i].id # r.parent_id

\* The rule, or one of its ancestors within `fuel` steps, has a dangling parent
RECURSIVE HangsOnDangling(_, _, _)
HangsOnDangling(rs, r, fuel) ==
    /\ fuel > 0
    /\ r.parent_id # NoParent
    /\ \/ Dangling(rs, r)
       \/ \E i \in 1..Len(rs) :
             rs[i].id = r.parent_id /\ HangsOnDangling(rs, rs[i], fuel - 1)

\* The list without the rules under a dangling parent
WithoutDangling(rs) ==
    SelectSeq(rs, LAMBDA r : ~HangsOnDangling(rs, r, Len(rs)))

RECURSIVE RulesOfNode(_)
RulesOfNode(n) ==
    {n.rule} \cup UNION {RulesOfNode(n.children[k]) : k \in 1..Len(n.children)}

RulesOfTree(tree) == UNION {RulesOfNode(tree[k]) : k \in 1..Len(tree)}

\* C28: buildRuleTree builds a tree from a list with dangling parents; a rule
\* under a dangling parent is no root and no child of any node, and the
\* preview selects what it selects from the list without those rules.
C28_DanglingRulesAreDropped ==
    pc = "previewed" =>
        /\ \A i \in 1..Len(rules) :
              HangsOnDangling(rules, rules[i], Len(rules)) => rules[i] \notin RulesOfTree(ruleTree)
        /\ ruleTree = buildRuleTree(WithoutDangling(rules))
        /\ matchingProducts = FilterMatching(allProducts, buildRuleTree(WithoutDangling(rules)))

\* A previewed list in which a rule with a dangling parent has a child of
\* its own that would match the first product of the catalog
C28_Witness ==
    /\ pc = "previewed"
    /\ Len(rules) = 2
    /\ Dangling(rules, rules[1])
    /\ rules[2].parent_id = rules[1].id
    /\ matchesRule(allProducts[1], rules[1])
    /\ matchesRule(allProducts[1], rules[2])

----------------------------------------------------------------------------
(* Properties of the evaluation under a reordering of the rule list *)

Orderings(n) ==
    {f \in [1..n -> 1..n] : \A i, j \in 1..n : f[i] = f[j] => i = j}

Reordered(rs, f) == [i \in 1..Len(rs) |-> rs[f[i]]]

\* C29: the result of evaluating a rule list on an item is the same for
\* every order of the rules in the list, and so for every order of siblings.
C29_OrderDoesNotMatter ==
    pc = "tree" =>
        \A f \in Orderings(Len(rules)) :
            evaluateRuleTree(GraphqlNode(product), buildRuleTree(Reordered(rules, f))) = result

\* The children of one parent carry one operator
SiblingsShareOperator(rs) ==
    \A i, j \in 1..Len(rs) :
        (rs[i].parent_id # NoParent /\ rs[i].parent_id = rs[j].parent_id)
            => rs[i].operator = rs[j].operator

\* What does hold: a list whose siblings carry one operator evaluates alike
\* in every order.
UniformSiblingsOrderDoesNotMatter ==
    (pc = "tree" /\ SiblingsShareOperator(rules)) =>
        \A f \in Orderings(Len(rules)) :
            evaluateRuleTree(GraphqlNode(product), buildRuleTree(Reordered(rules, f))) = result

----------------------------------------------------------------------------
(* Properties of the routes on tables shared by two shops *)

RowsOfShop(table, forShop) == SelectSeq(table, LAMBDA c : c.shop = forShop)

RulesOfShop(db, forShop) ==
    SelectSeq(db.configuration_rules,
              LAMBDA r : \E i \in 1..Len(db.configurations) :
                            /\ db.configurations[i].id = r.configuration_id
                            /\ db.configurations[i].shop = forShop)

\* C24: a request of one shop never returns, updates, deletes or duplicates
\* a configuration of another shop: after a request of shop s1 the rows and
\* rules of shop s2 are what they were, no row of s2 is in the answer, and no
\* row of s1 copies one.
C24_OtherShopUntouched ==
    (pc = "adminDone" /\ req.kind \in {"get", "update", "delete", "duplicate"}) =>
        /\ RowsOfShop(configurations, OtherShop) = RowsOfShop(snapshot.configurations, OtherShop)
        /\ RulesOfShop(Db, OtherShop) = RulesOfShop(snapshot, OtherShop)
        /\ (req.kind = "get" /\ reply.status = 200) => reply.body[1].shop = req.shop
        /\ (req.kind = "duplicate" /\ reply.status = 201) =>
               getConfigurationById(snapshot.configurations, req.id).shop = req.shop

\* What does hold: a request of shop s1 never stores a row under another
\* shop's name.
C24_NewRowsCarrySessionShop ==
    pc = "adminDone" =>
        Len(RowsOfShop(configurations, OtherShop)) <= Len(RowsOfShop(snapshot.configurations, OtherShop))

----------------------------------------------------------------------------
(* Properties of the rule editor *)

\* C25: after any sequence of add-root, add-child, add-sibling, change-type,
\* change-value and delete from the empty list, no rule has the kind of a
\* rule on its ancestor chain.
C25_KindsDifferAlongChain ==
    \A i \in 1..Len(rules) :
        ~InSeq(rules[i].rule_type, getParentTypes(rules, rules[i].id))

\* A chain of three rules whose lowest rule had its value chosen
C25_Witness ==
    \E i \in 1..Len(rules) :
        /\ rules[i].level = 2
        /\ Len(getParentTypes(rules, rules[i].id)) = 2
        /\ rules[i].rule_value # ""

\* C26: at most one rule is a product rule, and it is a root without
\* children.
C26_OneChildlessProductRoot ==
    \A i \in 1..Len(rules) :
        rules[i].rule_type = "product" =>
            /\ \A j \in 1..Len(rules) : rules[j].rule_type = "product" => j = i
            /\ rules[i].parent_id = NoParent
            /\ rules[i].level = 0
            /\ Len(ChildrenOf(rules, rules[i].id)) = 0

\* A product rule beside a root that has a child, with its products chosen
C26_Witness ==
    \E i, j \in 1..Len(rules) :
        /\ rules[i].rule_type = "product"
        /\ rules[i].rule_id = JSONstringify(<<ProductGid(1)>>)
        /\ rules[j].parent_id # NoParent
        /\ i < j

\* C27: the rules under one parent carry one operator, and where a sibling
\* was added with OR every rule under that parent carries OR.
C27_SiblingsCarryOneOperator ==
    \A i, j \in 1..Len(rules) :
        (i # j /\ rules[i].parent_id = rules[j].parent_id) =>
            /\ rules[i].operator = rules[j].operator
            /\ rules[i].operator = "OR"

\* A parent with two rules under it, the first of which was added with AND
C27_Witness ==
    \E i \in 1..Len(rules) :
        /\ Len(ChildrenOf(rules, rules[i].id)) = 2
        /\ \A k \in 1..2 : ChildrenOf(rules, rules[i].id)[k].operator = "OR"

----------------------------------------------------------------------------
(* Properties of the lazy database initialization *)

\* C30: database.initialize() is never in progress twice and is not started
\* again after it succeeded; a request that arrives during an attempt waits
\* for that attempt and is served only once the database is initialized;
\* after a failed attempt the next request starts a new one.
C30_SingleFlightInitialization ==
    /\ Cardinality(Pending) <= 1
    /\ \A i \in 1..Len(promises) : promises[i] = "fulfilled" => i = Len(promises)
    /\ dbInitialized <=> (Len(promises) > 0 /\ promises[Len(promises)] = "fulfilled")
    /\ \A r \in 1..Len(arrivals) :
          /\ arrivals[r].promise \in 1..Len(promises)
          /\ arrivals[r].state = "next" => dbInitialized
          /\ (arrivals[r].during /\ r > 1) => arrivals[r].promise = arrivals[r - 1].promise
    /\ (~dbInitialized /\ Pending = {}) => dbInitPromise = NoPromise

\* A first attempt failed under two waiting requests, which were answered
\* 500; the third request started the second attempt, the fourth arrived
\* during it, and both were served after it succeeded.
C30_Witness ==
    /\ Len(arrivals) = 4
    /\ promises = <<"rejected", "fulfilled">>
    /\ arrivals[1].state = "500" /\ arrivals[2].state = "500" /\ arrivals[2].during
    /\ arrivals[3].state = "next" /\ arrivals[4].state = "next"
    /\ arrivals[4].during /\ arrivals[4].promise = 2

====
